---- MODULE Spec2Model ----
(***************************************************************************)
(* A model of the decoders of wradlib/io.py: the DWD DX reader (readDX,    *)
(* unpackDX, parse_DX_header), the DWD RADOLAN composite reader            *)
(* (read_RADOLAN_composite, parse_DWD_quant_composite_header) and the      *)
(* Rainbow functions (find_key, get_RB_blob_data, get_RB_data_layout,      *)
(* map_RB_data, get_RB_blob_from_string, get_RB_file_as_string,            *)
(* get_RB_header, RainbowDomNode).                                         *)
(*                                                                         *)
(* Conventions.  A Python str / byte buffer is a sequence of byte values   *)
(* 0..255 (header text is written with its ASCII codes); Python indices    *)
(* are 0-based, so s[i] of the source is At(s, i) here and s[a:b] is       *)
(* Slice(s, a, b).  A call that raises ends with exc set to the name of    *)
(* the exception.  numpy floats that the code produces are kept exact as   *)
(* records [num, den].  The host of the DX and RADOLAN readers is          *)
(* little-endian (dtype 'uint16' is the native order); for the Rainbow     *)
(* functions sys.byteorder is an input of the call.  Python assert         *)
(* statements are enabled.                                                 *)
(*                                                                         *)
(* Spec is one call of one entry point on one input; SpecSession is a      *)
(* decode call made twice in one interpreter, other calls of the module    *)
(* running in between.                                                     *)
(***************************************************************************)
EXTENDS Integers, Sequences, FiniteSets, TLC

VARIABLES
    fn,       \* the entry point that was called
    file,     \* the bytes of the file the call reads, as far as they are determined
    sealed,   \* TRUE when nothing follows the bytes of `file`
    arg,      \* the argument of a direct call of unpackDX or of a header parser
    missing,  \* read_RADOLAN_composite's `missing` argument
    pc,       \* the call's position
    fpos,     \* the file object's position
    fstate,   \* "none" (never opened), "open", "closed"
    header,   \* local `header` of the scan loop
    atend,    \* local `atend` of readDX's scan loop
    mychar,   \* local `mychar`: the bytes the last f.read(1) returned
              \* (in get_RB_header: local `line`, the last fid.readline())
    attrs,    \* local `attrs`
    raw,      \* local `raw`: the payload as unsigned 16-bit words
    idx,      \* readDX's beam loop index i
    beams,    \* readDX's list `beams`
    elevs,    \* readDX's list `elevs`
    azims,    \* readDX's list `azims`
    warned,   \* whether warnings.warn was called
    ret,      \* the value returned
    exc,      \* the exception raised, "none" if none
    turn,     \* 0: the call runs alone in a fresh interpreter; 1: the same
              \* call runs again later in the same interpreter
    alone,    \* the outcome of the call of turn 0, once it has ended
    zero_index \* the module's globals zero_index, el and az ("unset" until
              \* read_gamic_scan_attributes binds them)

vars == <<fn, file, sealed, arg, missing, pc, fpos, fstate, header, atend, mychar,
          attrs, raw, idx, beams, elevs, azims, warned, ret, exc,
          turn, alone, zero_index>>

\* what outlives a call: the turn, the first outcome, the module's globals
session == <<turn, alone, zero_index>>

-----------------------------------------------------------------------------
(* Python sequence primitives *)

Min(a, b) == IF a < b THEN a ELSE b

Max(a, b) == IF a > b THEN a ELSE b

\* s[i], i >= 0 and in range
At(s, i) == s[i + 1]

\* a slice bound as Python resolves it: negative counts from the end, then
\* it is clamped to the sequence
SliceBound(s, i) == IF i < 0 THEN Max(Len(s) + i, 0) ELSE Min(i, Len(s))

\* the elements lo+1 .. hi of s (0-based: lo .. hi-1)
Between(s, lo, hi) == IF lo >= hi THEN <<>> ELSE [k \in 1..(hi - lo) |-> s[lo + k]]

\* s[a:b]
Slice(s, a, b) == Between(s, SliceBound(s, a), SliceBound(s, b))

\* [0] * n
Zeros(n) == [k \in 1..n |-> 0]

\* the & of two non-negative integers
RECURSIVE BitAnd(_, _)
BitAnd(a, b) ==
    IF a = 0 \/ b = 0 THEN 0
    ELSE (a % 2) * (b % 2) + 2 * BitAnd(a \div 2, b \div 2)

\* the elements of a sequence
Range(s) == {s[i] : i \in 1..Len(s)}

\* the elements of a finite set of integers in ascending order
Ascending(S) ==
    [k \in 1..Cardinality(S) |->
        CHOOSE x \in S : Cardinality({y \in S : y < x}) = k - 1]

\* np.where(cond)[0]: the ascending 0-based indices i of s with s[i] in S
Where(s, S) == Ascending({i \in 0..(Len(s) - 1) : At(s, i) \in S})

-----------------------------------------------------------------------------
(* unpackDX *)

\* unpackDX: data = 4095
data == 4095

\* unpackDX: flag = 4096
flag == 4096

\* the size the assert of unpackDX demands of a beam without zero runs
FullBeam == 128

IsFlagged(w) == BitAnd(w, flag) # 0

\* the loop over zip(flagged[:-1], flagged[1:]), from pair k on
RECURSIVE UnpackPairs(_, _, _)
UnpackPairs(rw, flagged, k) ==
    IF k >= Len(flagged) THEN <<>>
    ELSE Zeros(BitAnd(At(rw, flagged[k]), data))
         \o Slice(rw, flagged[k] + 1, flagged[k + 1])
         \o UnpackPairs(rw, flagged, k + 1)

\* unpackDX(raw) with `flagged` computed: [exc, val]
Unpack(rw, flagged) ==
    IF Len(flagged) = 0
    THEN IF Len(rw) = FullBeam
         THEN [exc |-> "none", val |-> rw]
         ELSE [exc |-> "AssertionError", val |-> <<>>]
    ELSE [exc |-> "none",
          val |-> Slice(rw, 0, flagged[1])
                  \o UnpackPairs(rw, flagged, 1)
                  \o Zeros(BitAnd(At(rw, flagged[Len(flagged)]), data))
                  \o Slice(rw, flagged[Len(flagged)] + 1, Len(rw))]

\* unpackDX(raw): [exc, val]
unpackDX(rw) == Unpack(rw, Where(rw, {w \in Range(rw) : IsFlagged(w)}))

-----------------------------------------------------------------------------
(* Python str primitives, on sequences of ASCII codes *)

\* ord(c) for the characters the header texts below are written with
Ord(c) ==
    CASE c = " " -> 32 [] c = "+" -> 43 [] c = "," -> 44 [] c = "-" -> 45
      [] c = "." -> 46 [] c = "<" -> 60 [] c = ">" -> 62 [] c = "x" -> 120
      [] c = "0" -> 48 [] c = "1" -> 49 [] c = "2" -> 50 [] c = "3" -> 51
      [] c = "4" -> 52 [] c = "5" -> 53 [] c = "6" -> 54 [] c = "7" -> 55
      [] c = "8" -> 56 [] c = "9" -> 57
      [] c = "B" -> 66 [] c = "C" -> 67 [] c = "D" -> 68 [] c = "E" -> 69
      [] c = "G" -> 71 [] c = "I" -> 73 [] c = "M" -> 77 [] c = "N" -> 78
      [] c = "O" -> 79 [] c = "P" -> 80 [] c = "R" -> 82 [] c = "S" -> 83
      [] c = "T" -> 84 [] c = "V" -> 86 [] c = "W" -> 87 [] c = "X" -> 88
      [] c = "Y" -> 89 [] c = "a" -> 97 [] c = "b" -> 98 [] c = "o" -> 111
      [] c = "r" -> 114 [] c = "s" -> 115
      [] c = "\"" -> 34 [] c = "/" -> 47 [] c = "=" -> 61 [] c = "@" -> 64
      [] c = "L" -> 76 [] c = "Q" -> 81
      [] c = "c" -> 99 [] c = "d" -> 100 [] c = "e" -> 101 [] c = "i" -> 105
      [] c = "l" -> 108 [] c = "m" -> 109 [] c = "n" -> 110 [] c = "p" -> 112
      [] c = "q" -> 113 [] c = "t" -> 116 [] c = "u" -> 117 [] c = "w" -> 119
      [] c = "y" -> 121 [] c = "z" -> 122 [] c = "!" -> 33 [] c = "h" -> 104

\* the str written as the tuple t of its characters
Txt(t) == [k \in 1..Len(t) |-> Ord(t[k])]

\* chr(3)
ETX == <<3>>

IsDigit(c) == c >= 48 /\ c <= 57

\* str.isspace for one character: space, \t \n \v \f \r
IsSpace(c) == c = 32 \/ (c >= 9 /\ c <= 13)

\* the least element of a set of integers, d if the set is empty
LeastOr(S, d) == IF S = {} THEN d ELSE CHOOSE i \in S : \A j \in S : i <= j

GreatestOr(S, d) == IF S = {} THEN d ELSE CHOOSE i \in S : \A j \in S : i >= j

\* s.find(sub): the 0-based index of the first occurrence, -1 if there is none
Find(s, sub) ==
    LeastOr({i \in 0..(Len(s) - Len(sub)) : Slice(s, i, i + Len(sub)) = sub}, -1)

\* s.lstrip(chars), s.rstrip(chars), s.strip(chars) for a set of characters
LStrip(s, chars) ==
    SubSeq(s, LeastOr({i \in 1..Len(s) : s[i] \notin chars}, Len(s) + 1), Len(s))

RStrip(s, chars) ==
    SubSeq(s, 1, GreatestOr({i \in 1..Len(s) : s[i] \notin chars}, 0))

StripChars(s, chars) == RStrip(LStrip(s, chars), chars)

\* s.strip(): whitespace is dropped at both ends
Strip(s) == StripChars(s, {c \in 0..255 : IsSpace(c)})

\* the pieces of s between the positions `cuts` of its separators
Pieces(s, cuts) ==
    [k \in 1..(Len(cuts) + 1) |->
        SubSeq(s, IF k = 1 THEN 1 ELSE cuts[k - 1] + 1,
                  IF k = Len(cuts) + 1 THEN Len(s) ELSE cuts[k] - 1)]

\* s.split(sep) for a one-character sep: the list of the pieces between
\* the separators, one more piece than separators
Split(s, sep) == Pieces(s, Ascending({i \in 1..Len(s) : s[i] = sep}))

\* the value of a str of decimal digits
RECURSIVE DigitsValue(_)
DigitsValue(s) ==
    IF Len(s) = 0 THEN 0
    ELSE 10 * DigitsValue(SubSeq(s, 1, Len(s) - 1)) + (s[Len(s)] - 48)

AllDigits(s) == Len(s) > 0 /\ \A k \in 1..Len(s) : IsDigit(s[k])

IsSign(c) == c = 43 \/ c = 45

\* the digits of a stripped numeral: what follows its sign, if it has one
Unsigned(t) == IF Len(t) > 0 /\ IsSign(t[1]) THEN Tail(t) ELSE t

\* the sign of a stripped numeral
SignOf(t) == IF Len(t) > 0 /\ t[1] = 45 THEN -1 ELSE 1

\* int(s) of a stripped s
IntOf(t) ==
    IF AllDigits(Unsigned(t))
    THEN [ok |-> TRUE, val |-> SignOf(t) * DigitsValue(Unsigned(t))]
    ELSE [ok |-> FALSE, val |-> 0]

\* int(s): surrounding whitespace is dropped, one sign is allowed, then
\* decimal digits only; anything else is a ValueError
ParseInt(s) == IntOf(Strip(s))

RECURSIVE Pow10(_)
Pow10(n) == IF n <= 0 THEN 1 ELSE 10 * Pow10(n - 1)

\* float() of the integer digits ipart and the fraction digits fpart
FloatFrom(sign, ipart, fpart) ==
    IF /\ Len(ipart) + Len(fpart) > 0
       /\ \A k \in 1..Len(ipart) : IsDigit(ipart[k])
       /\ \A k \in 1..Len(fpart) : IsDigit(fpart[k])
    THEN [ok |-> TRUE,
          num |-> sign * (DigitsValue(ipart) * Pow10(Len(fpart)) + DigitsValue(fpart)),
          den |-> Pow10(Len(fpart))]
    ELSE [ok |-> FALSE, num |-> 0, den |-> 1]

\* float() of an unsigned numeral whose decimal point is at dot (-1: none)
FloatAt(sign, body, dot) ==
    IF dot = -1 THEN FloatFrom(sign, body, <<>>)
    ELSE FloatFrom(sign, SubSeq(body, 1, dot), SubSeq(body, dot + 2, Len(body)))

FloatOf(t) == FloatAt(SignOf(t), Unsigned(t), Find(Unsigned(t), <<46>>))

\* float(s) for the decimal forms digits[.digits] and .digits with an
\* optional sign (no header text below holds an exponent, "inf" or "nan"):
\* the value is num / den
ParseFloat(s) == FloatOf(Strip(s))

DaysInMonth(y, m) ==
    IF m \in {4, 6, 9, 11} THEN 30
    ELSE IF m = 2
         THEN (IF y % 4 = 0 /\ (y % 100 # 0 \/ y % 400 = 0) THEN 29 ELSE 28)
         ELSE 31

\* the day of %d: two digits, or a space and a digit
DayOf(f) == IF f[1] = 32 THEN f[2] - 48 ELSE DigitsValue(f)

\* the year of %y
YearOf(yy) == IF yy < 69 THEN 2000 + yy ELSE 1900 + yy

\* the datetime of the fields d, H, M, m, y, S, or the ValueError
StampOf(d, H, M, m, y, S) ==
    IF /\ d >= 1 /\ H <= 23 /\ M <= 59 /\ m >= 1 /\ m <= 12 /\ S <= 61
       /\ d <= DaysInMonth(y, m)
    THEN [ok |-> TRUE,
          val |-> [year |-> y, month |-> m, day |-> d,
                   hour |-> H, minute |-> M, second |-> S]]
    ELSE [ok |-> FALSE, val |-> [year |-> 0]]

\* strptime of the six two-character fields f
StampFields(f) ==
    IF /\ AllDigits(f[1]) \/ (f[1][1] = 32 /\ IsDigit(f[1][2]))
       /\ \A k \in 2..6 : AllDigits(f[k])
    THEN StampOf(DayOf(f[1]), DigitsValue(f[2]), DigitsValue(f[3]),
                 DigitsValue(f[4]), YearOf(DigitsValue(f[5])), DigitsValue(f[6]))
    ELSE [ok |-> FALSE, val |-> [year |-> 0]]

\* datetime.strptime(s, "%d%H%M%m%y%S").  The six directives take at most two
\* characters each, so a 12-character s matches only with two characters per
\* directive; %d also takes a space followed by a digit 1-9.
strptime(s) ==
    IF Len(s) = 12 THEN StampFields([k \in 1..6 |-> SubSeq(s, 2 * k - 1, 2 * k)])
    ELSE [ok |-> FALSE, val |-> [year |-> 0]]

-----------------------------------------------------------------------------
(* parse_DX_header *)

\* the list comprehension of 'elevprofile': float() of the eight 3-character
\* fields after "EP"
EPFields(hd, pos_EP) ==
    [i \in 1..8 |->
        ParseFloat(Slice(hd, pos_EP + 2 + 3 * (i - 1), pos_EP + 2 + 3 * i))]

\* the pos_* of parse_DX_header
DXTagPositions(hd) ==
    [BY |-> Find(hd, Txt(<<"B", "Y">>)), VS |-> Find(hd, Txt(<<"V", "S">>)),
     CO |-> Find(hd, Txt(<<"C", "O">>)), CD |-> Find(hd, Txt(<<"C", "D">>)),
     CS |-> Find(hd, Txt(<<"C", "S">>)), EP |-> Find(hd, Txt(<<"E", "P">>)),
     MS |-> Find(hd, Txt(<<"M", "S">>))]

\* the conversions of parse_DX_header, each [ok, ...]
DXConversions(hd, pos) ==
    [stamp |-> strptime(Slice(hd, 2, 8) \o Slice(hd, 13, 17) \o <<48, 48>>),
     bytes |-> ParseInt(Slice(hd, pos.BY + 2, pos.BY + 7)),
     co    |-> ParseInt(Slice(hd, pos.CO + 2, pos.CO + 3)),
     cd    |-> ParseInt(Slice(hd, pos.CD + 2, pos.CD + 3)),
     cs    |-> ParseInt(Slice(hd, pos.CS + 2, pos.CS + 3)),
     ep    |-> EPFields(hd, pos.EP),
     mslen |-> ParseInt(Slice(hd, pos.MS + 2, pos.MS + 5))]

\* the dict `out` of parse_DX_header, or the ValueError of a conversion
DXDict(hd, pos, cv) ==
    IF /\ cv.stamp.ok /\ cv.bytes.ok /\ cv.co.ok /\ cv.cd.ok /\ cv.cs.ok
       /\ \A i \in 1..8 : cv.ep[i].ok
       /\ cv.mslen.ok
    THEN [exc |-> "none",
          val |-> [producttype   |-> Slice(hd, 0, 2),
                   datetime      |-> cv.stamp.val,
                   radarid       |-> Slice(hd, 8, 13),
                   bytes         |-> cv.bytes.val,
                   version       |-> Slice(hd, pos.VS + 2, pos.VS + 4),
                   cluttermap    |-> cv.co.val,
                   dopplerfilter |-> cv.cd.val,
                   statfilter    |-> cv.cs.val,
                   elevprofile   |-> [i \in 1..8 |-> [num |-> cv.ep[i].num,
                                                       den |-> cv.ep[i].den]],
                   message       |-> Slice(hd, pos.MS + 5,
                                           pos.MS + 5 + cv.mslen.val)]]
    ELSE [exc |-> "ValueError", val |-> [producttype |-> Slice(hd, 0, 2)]]

DXParsed(hd, pos) == DXDict(hd, pos, DXConversions(hd, pos))

\* parse_DX_header(header): [exc, val], val the dict `out`
parse_DX_header(hd) == DXParsed(hd, DXTagPositions(hd))

-----------------------------------------------------------------------------
(* parse_DWD_quant_composite_header *)

\* the dict literal of 'maxrange', keyed by the VS code
MaxRangeNames ==
    [c \in 0..3 |-> CASE c = 0 -> "100 km and 128 km (mixed)"
                      [] c = 1 -> "100 km"
                      [] c = 2 -> "128 km"
                      [] c = 3 -> "150 km"]

\* 10 ** e, kept as its exponent: a Python int for e >= 0, the float
\* 1 / 10^(-e) for e < 0
TenPow(e) == [exp |-> e, isfloat |-> e < 0]

\* x * p for an integer x and p = 10 ** e, cut to an integer towards zero
\* (what astype(int) keeps of the product)
TimesTenPow(x, p) ==
    IF p.exp >= 0 THEN x * Pow10(p.exp)
    ELSE IF x >= 0 THEN x \div Pow10(0 - p.exp)
    ELSE 0 - ((0 - x) \div Pow10(0 - p.exp))

\* the pos_* of parse_DWD_quant_composite_header
RadolanTagPositions(hd) ==
    [VS  |-> Find(hd, Txt(<<"V", "S">>)), SW |-> Find(hd, Txt(<<"S", "W">>)),
     PR  |-> Find(hd, Txt(<<"P", "R">>)), INT |-> Find(hd, Txt(<<"I", "N", "T">>)),
     GP  |-> Find(hd, Txt(<<"G", "P">>)), MS |-> Find(hd, Txt(<<"M", "S">>))]

\* the conversions and splits of parse_DWD_quant_composite_header
RadolanConversions(hd, pos) ==
    [vs         |-> ParseInt(Slice(hd, pos.VS + 2, pos.VS + 4)),
     pr         |-> ParseInt(Slice(hd, pos.PR + 4, pos.PR + 7)),
     int        |-> ParseInt(Slice(hd, pos.INT + 3, pos.INT + 7)),
     dimstrings |-> Split(Strip(Slice(hd, pos.GP + 2, pos.GP + 11)), 120),
     parts      |-> Split(Strip(Slice(hd, pos.MS + 2, Len(hd))), 60)]

RadolanFail(e) == [exc |-> e, val |-> [maxrange |-> "none"]]

\* the dict `out`.  The statements run in source order; the first that
\* raises ends the call.
RadolanDict(hd, pos, cv) ==
    IF pos.VS > -1 /\ ~cv.vs.ok THEN RadolanFail("ValueError")
    ELSE IF pos.VS > -1 /\ cv.vs.val \notin DOMAIN MaxRangeNames THEN RadolanFail("KeyError")
    ELSE IF ~cv.pr.ok \/ ~cv.int.ok \/ ~ParseInt(cv.dimstrings[1]).ok
         THEN RadolanFail("ValueError")
    ELSE IF Len(cv.dimstrings) < 2 THEN RadolanFail("IndexError")
    ELSE IF ~ParseInt(cv.dimstrings[2]).ok THEN RadolanFail("ValueError")
    ELSE IF Len(cv.parts) < 2 THEN RadolanFail("IndexError")
    ELSE [exc |-> "none",
          val |-> [maxrange        |-> IF pos.VS > -1 THEN MaxRangeNames[cv.vs.val]
                                       ELSE "100 km",
                   radolanversion  |-> Slice(hd, pos.SW + 2, pos.SW + 11),
                   precision       |-> TenPow(cv.pr.val),
                   intervalseconds |-> cv.int.val * 60,
                   nrow            |-> ParseInt(cv.dimstrings[1]).val,
                   ncol            |-> ParseInt(cv.dimstrings[2]).val,
                   radarlocations  |->
                       Split(StripChars(Strip(cv.parts[2]), {62}), 44)]]

RadolanParsed(hd, pos) == RadolanDict(hd, pos, RadolanConversions(hd, pos))

\* parse_DWD_quant_composite_header(header): [exc, val], val the dict `out`
parse_DWD_quant_composite_header(hd) == RadolanParsed(hd, RadolanTagPositions(hd))

-----------------------------------------------------------------------------
(* The inputs: beams for unpackDX, header texts for the parsers, files for
   the readers *)

\* the longest beam of unpackDX's direct calls that is enumerated in full
MaxRaw == 4

\* the most range-bin words of an enumerated beam of a DX file
MaxBins == 2

\* all sequences over S with at most n elements
SeqsUpTo(S, n) == UNION {[1..k -> S] : k \in 0..n}

\* bin words: a value, a value with the clutter bit (2^15), a value with bit
\* 14 (2^13) beside other bits, a zero run of 2, a zero run of 1 with the
\* clutter bit, an empty zero run
RawWords == {5, 32775, 8201, 4098, 36865, 4096}

\* a beam of n equal words
Uniform(w, n) == [k \in 1..n |-> w]

\* beams that are not enumerated by length: full beams of 128 words without
\* and with a zero run, a beam of 129 words, and five values around a zero
\* run of three
LongBeams ==
    {Uniform(5, FullBeam), Uniform(5, FullBeam + 1),
     Uniform(32775, FullBeam - 1) \o <<4097>>,
     <<5, 6, 4099, 7, 8, 9>>}

RawInputs == SeqsUpTo(RawWords, MaxRaw) \cup LongBeams

\* n as w decimal digits
Digits(n, w) == [k \in 1..w |-> 48 + ((n \div Pow10(w - k)) % 10)]

\* The header text of a DX file that declares `by` bytes, without the tag
\* named by `omit`:
\* DX021230104880512BY<by>VS 2CO0CD0CS0EP0.50.50.50.50.50.50.50.5MS  2ab
DXHeaderText(by, omit) ==
    Txt(<<"D", "X", "0", "2", "1", "2", "3", "0",
          "1", "0", "4", "8", "8", "0", "5", "1", "2">>)
    \o (IF omit = "BY" THEN <<>> ELSE Txt(<<"B", "Y">>) \o Digits(by, 5))
    \o (IF omit = "VS" THEN <<>> ELSE Txt(<<"V", "S", " ", "2">>))
    \o (IF omit = "CO" THEN <<>> ELSE Txt(<<"C", "O", "0">>))
    \o (IF omit = "CD" THEN <<>> ELSE Txt(<<"C", "D", "0">>))
    \o (IF omit = "CS" THEN <<>> ELSE Txt(<<"C", "S", "0">>))
    \o (IF omit = "EP" THEN <<>>
        ELSE Txt(<<"E", "P", "0", ".", "5", "0", ".", "5", "0", ".", "5",
                   "0", ".", "5", "0", ".", "5", "0", ".", "5", "0", ".", "5",
                   "0", ".", "5">>))
    \o (IF omit = "MS" THEN <<>> ELSE Txt(<<"M", "S", " ", " ", "2", "a", "b">>))

DXTags == {"BY", "VS", "CO", "CD", "CS", "EP", "MS"}

\* the byte counts the DX headers declare: two that end the payload inside
\* the file, one even and one odd, and one beyond every file
DXDeclared == {80, 81, 999}

\* The header text of a RADOLAN file of product `prod` (two characters),
\* station `id` (five), precision exponent `pr` (three) and grid `gp`
\* (nine), without the tag named by `omit`:
\* <prod>021230<id>0512BY00004VS 1SW   2.13.1PR E<pr>INT   5GP<gp>MS  7<bo,ro>
RadolanHeaderText(prod, id, pr, gp, omit) ==
    prod \o Txt(<<"0", "2", "1", "2", "3", "0">>) \o id \o Txt(<<"0", "5", "1", "2">>)
    \o Txt(<<"B", "Y", "0", "0", "0", "0", "4">>)
    \o (IF omit = "VS" THEN <<>> ELSE Txt(<<"V", "S", " ", "1">>))
    \o (IF omit = "SW" THEN <<>>
        ELSE Txt(<<"S", "W", " ", " ", " ", "2", ".", "1", "3", ".", "1">>))
    \o (IF omit = "PR" THEN <<>> ELSE Txt(<<"P", "R", " ", "E">>) \o pr)
    \o (IF omit = "INT" THEN <<>> ELSE Txt(<<"I", "N", "T", " ", " ", " ", "5">>))
    \o (IF omit = "GP" THEN <<>> ELSE Txt(<<"G", "P">>) \o gp)
    \o (IF omit = "MS" THEN <<>>
        ELSE Txt(<<"M", "S", " ", " ", "7", "<", "b", "o", ",", "r", "o", ">">>))

RadolanTags == {"VS", "SW", "PR", "INT", "GP", "MS"}

RadolanProducts == {Txt(<<"R", "X">>), Txt(<<"R", "W">>), Txt(<<"R", "D">>)}

RadolanIds == {Txt(<<"1", "0", "0", "0", "0">>), Txt(<<"1", "0", "4", "8", "8">>)}

\* the PR exponents "-03" .. "+03"
RadolanExponents ==
    {Txt(<<"-", "0", "3">>), Txt(<<"-", "0", "1">>), Txt(<<"+", "0", "0">>),
     Txt(<<"+", "0", "2">>), Txt(<<"+", "0", "3">>)}

\* the GP fields "   2x   2" and "   1x   3"
RadolanGrids ==
    {Txt(<<" ", " ", " ", "2", "x", " ", " ", " ", "2">>),
     Txt(<<" ", " ", " ", "1", "x", " ", " ", " ", "3">>)}

RadolanHeaders ==
    {RadolanHeaderText(prod, id, pr, gp, "none") :
        prod \in RadolanProducts, id \in RadolanIds,
        pr \in RadolanExponents, gp \in RadolanGrids}
    \cup {RadolanHeaderText(Txt(<<"R", "W">>), Txt(<<"1", "0", "0", "0", "0">>),
                            Txt(<<"-", "0", "1">>),
                            Txt(<<" ", " ", " ", "2", "x", " ", " ", " ", "2">>), t) :
            t \in RadolanTags}

\* the header texts the parsers are called with directly
DXHeaders ==
    {DXHeaderText(by, "none") : by \in DXDeclared}
    \cup {DXHeaderText(999, t) : t \in DXTags}

-----------------------------------------------------------------------------
(* The payloads of the DX files *)

\* the most beams of an enumerated DX payload
MaxBeams == 2

\* np.frombuffer(buf, dtype='uint16') on the little-endian host, and back
WordsToBytes(ws) ==
    [k \in 1..(2 * Len(ws)) |->
        IF k % 2 = 1 THEN ws[(k + 1) \div 2] % 256 ELSE ws[k \div 2] \div 256]

BytesToWords(bs) ==
    [k \in 1..(Len(bs) \div 2) |-> bs[2 * k - 1] + 256 * bs[2 * k]]

\* readDX: azimuthbitmask = 2 ** (14 - 1)
azimuthbitmask == 2 ^ (14 - 1)

\* readDX: databitmask = 2 ** (13 - 1) - 1
databitmask == 2 ^ (13 - 1) - 1

\* readDX: clutterflag = 2 ** 15
clutterflag == 2 ^ 15

\* a dataflag that keeps all 16 bits of a bin word
dataflag_AllBits == 2 ^ 16 - 1

\* readDX: dataflag = 2 ** 13 - 1
dataflag == 2 ^ 13 - 1

\* the range-bin words of the files' beams: a value beside bit 14, a zero
\* run of 2, a value with the clutter bit
DXWords == {8201, 4098, 32775}

DXBinSeqs == SeqsUpTo(DXWords, MaxBins) \cup {Uniform(7, FullBeam)}

\* the bins of the beams after a file's first: at most one word, or a full beam
DXLaterBins == SeqsUpTo(DXWords, 1) \cup {Uniform(7, FullBeam)}

\* the bins of the beams of the enumerated payloads, beam by beam
DXBinLists ==
    {<<>>} \cup {<<b>> \o t : b \in DXBinSeqs, t \in SeqsUpTo(DXLaterBins, MaxBeams - 1)}

\* the azimuth and elevation words of the k-th beam of a file: azimuths
\* descend (359.9, then 129.1), and the later words carry other bits
DXAzimWord(k) == IF k = 1 THEN 3599 ELSE 13579

DXElevWord(k) == IF k = 1 THEN 8 ELSE 8201

\* the words of k..n-th beams with the bins given
RECURSIVE DXBeamWords(_, _)
DXBeamWords(bins, k) ==
    IF k > Len(bins) THEN <<>>
    ELSE <<azimuthbitmask, DXAzimWord(k), DXElevWord(k)>> \o bins[k]
         \o DXBeamWords(bins, k + 1)

\* payloads outside the enumeration: words but no marker, words before the
\* first marker, a marker for azimuth word, a marker as last word, a marker
\* with one word after it
DXOddWords ==
    {<<7, 7>>,
     <<7>> \o DXBeamWords(<<<<4098, 7>>>>, 1),
     <<azimuthbitmask, azimuthbitmask, 8, 4098>>,
     DXBeamWords(<<<<4098>>>>, 1) \o <<azimuthbitmask>>,
     <<azimuthbitmask, 3599>>}

\* the payloads of the DX files, as bytes; the last ends in half a word
DXPayloads ==
    {WordsToBytes(DXBeamWords(bins, 1)) : bins \in DXBinLists}
    \cup {WordsToBytes(ws) : ws \in DXOddWords}
    \cup {WordsToBytes(DXBeamWords(<<<<4098, 7>>>>, 1)) \o <<0>>}

-----------------------------------------------------------------------------
(* readDX *)

\* f.read(n) at position p of a file whose bytes are all determined: the
\* bytes up to the end for n < 0, else at most n bytes
Read(bytes, p, n) == IF n < 0 THEN Slice(bytes, p, Len(bytes)) ELSE Slice(bytes, p, p + n)

\* buflen of readDX: attrs['bytes'] - len(header), one less when that is odd
Buflen(by, hd) ==
    IF (by - Len(hd)) % 2 # 0 THEN by - Len(hd) - 1 ELSE by - Len(hd)

IsMarker(w) == w = azimuthbitmask

\* newazimuths: np.where(raw == azimuthbitmask)[0] with len(raw) appended
NewAzimuths(rw) == Append(Where(rw, {w \in Range(rw) : IsMarker(w)}), Len(rw))

\* x / 10.
Tenths(x) == [num |-> x, den |-> 10]

\* v * 0.5 - 32.5, which is (v - 65) / 2
HalfMinus(v) == [num |-> v - 65, den |-> 2]

\* np.array(beams): "float64" without beams and when a beam has no elements
\* (np.array([]) is float64), "ragged" (1-D, dtype object) when the
\* lengths differ, else "rect"
ArrayKind(bs) ==
    IF Len(bs) = 0 \/ \E i \in 1..Len(bs) : Len(bs[i]) = 0 THEN "float64"
    ELSE IF \E i \in 1..Len(bs) : Len(bs[i]) # Len(bs[1]) THEN "ragged"
    ELSE "rect"

\* open(filename, 'rb')
OpenDX ==
    /\ fn = "readDX" /\ pc = "open"
    /\ fstate' = "open"
    /\ pc' = "scan"
    /\ UNCHANGED <<session, fn, file, sealed, arg, missing, fpos, header, atend, mychar,
                   attrs, raw, idx, beams, elevs, azims, warned, ret, exc>>

\* a pass of the header loop that keeps the terminators out of the text
ScanTestDX_TextOnly(c) ==
    /\ mychar' = c
    /\ atend' = (atend \/ c = ETX)
    /\ IF c # ETX /\ atend
       THEN pc' = "parse" /\ header' = header
       ELSE pc' = "scan" /\ header' = (IF c = ETX THEN header ELSE header \o c)

\* one pass of the header loop of readDX with the byte string c that
\* f.read(1) returned
ScanTestDX(c) ==
    /\ mychar' = c
    /\ atend' = (atend \/ c = ETX)
    /\ IF c # ETX /\ atend
       THEN pc' = "parse" /\ header' = header
       ELSE pc' = "scan" /\ header' = header \o c

\* one pass of `while True` of readDX.  The bytes after the terminators of
\* a file are determined when the scan first reads past them.
ScanDX ==
    /\ fn = "readDX" /\ pc = "scan"
    /\ \/ /\ fpos < Len(file)
          /\ ScanTestDX(<<At(file, fpos)>>)
          /\ fpos' = fpos + 1
          /\ UNCHANGED <<file, sealed>>
       \/ /\ fpos >= Len(file) /\ sealed
          /\ ScanTestDX(<<>>)
          /\ UNCHANGED <<file, sealed, fpos>>
       \/ /\ fpos >= Len(file) /\ ~sealed
          /\ \E p \in DXPayloads :
                /\ file' = file \o p
                /\ ScanTestDX(Slice(p, 0, 1))
                /\ fpos' = fpos + Min(Len(p), 1)
          /\ sealed' = TRUE
    /\ UNCHANGED <<session, fn, arg, missing, fstate, attrs, raw, idx, beams, elevs,
                   azims, warned, ret, exc>>

\* the assignment of the parser's result r to attrs, or its exception
Parsed(r, extra, next) ==
    IF r.exc = "none"
    THEN attrs' = extra @@ r.val /\ pc' = next /\ exc' = exc
    ELSE attrs' = attrs /\ pc' = "done" /\ exc' = r.exc

\* attrs = parse_DX_header(header)
ParseDX ==
    /\ fn = "readDX" /\ pc = "parse"
    /\ Parsed(parse_DX_header(header), <<>>, "payload")
    /\ UNCHANGED <<session, fn, file, sealed, arg, missing, fpos, fstate, header, atend,
                   mychar, raw, idx, beams, elevs, azims, warned, ret>>

\* np.frombuffer(buf, dtype='uint16') and f.close() for the bytes read
Buffered(buf) ==
    /\ fpos' = Len(header) + Len(buf)
    /\ IF Len(buf) % 2 # 0
       THEN /\ exc' = "ValueError" /\ pc' = "done"
            /\ UNCHANGED <<raw, fstate>>
       ELSE /\ raw' = BytesToWords(buf)
            /\ fstate' = "closed"
            /\ pc' = "beams"
            /\ exc' = exc

\* f.seek(len(header)) up to f.close()
PayloadDX ==
    /\ fn = "readDX" /\ pc = "payload"
    /\ Buffered(Read(file, Len(header), Buflen(attrs.bytes, header)))
    /\ UNCHANGED <<session, fn, file, sealed, arg, missing, header, atend, mychar, attrs,
                   idx, beams, elevs, azims, warned, ret>>

\* the body of the beam loop for the marker at index m and the result
\* `beam` of unpackDX
BeamBody(m, beam) ==
    IF beam.exc # "none"
    THEN /\ exc' = beam.exc /\ pc' = "done"
         /\ UNCHANGED <<idx, beams, elevs, azims>>
    ELSE IF m + 2 >= Len(raw)
    THEN /\ exc' = "IndexError" /\ pc' = "done"
         /\ beams' = Append(beams, beam.val)
         /\ UNCHANGED <<idx, elevs, azims>>
    ELSE /\ beams' = Append(beams, beam.val)
         /\ elevs' = Append(elevs, Tenths(BitAnd(At(raw, m + 2), databitmask)))
         /\ azims' = Append(azims, Tenths(BitAnd(At(raw, m + 1), databitmask)))
         /\ idx' = idx + 1
         /\ UNCHANGED <<pc, exc>>

\* a pass of the beam loop that takes the bins from the elevation word on
BeamPass_FromElevation(newazimuths, i) ==
    BeamBody(At(newazimuths, i),
             unpackDX(Slice(raw, At(newazimuths, i) + 2, At(newazimuths, i + 1))))

\* the pass i of the beam loop
BeamPass(newazimuths, i) ==
    BeamBody(At(newazimuths, i),
             unpackDX(Slice(raw, At(newazimuths, i) + 3, At(newazimuths, i + 1))))

\* one pass of `for i in range(newazimuths.size - 1)`
BeamDX ==
    /\ fn = "readDX" /\ pc = "beams"
    /\ idx < Len(NewAzimuths(raw)) - 1
    /\ BeamPass(NewAzimuths(raw), idx)
    /\ UNCHANGED <<session, fn, file, sealed, arg, missing, fpos, fstate, header, atend,
                   mychar, attrs, raw, warned, ret>>

\* (beams & clutterflag) != 0 of a rectangular array, beam by beam
ClutterMask(bs) ==
    [i \in 1..Len(bs) |-> [j \in 1..Len(bs[i]) |-> BitAnd(bs[i][j], clutterflag) # 0]]

\* (beams & dataflag) * 0.5 - 32.5, beam by beam
DBZ(bs) ==
    [i \in 1..Len(bs) |-> [j \in 1..Len(bs[i]) |-> HalfMinus(BitAnd(bs[i][j], dataflag))]]

\* the values `(beams & clutterflag) != 0` can have for an array of the kind
\* given.  On a ragged array the comparison with 0 is made per beam and has
\* no truth value for a beam of several bins; the numpy releases differ in
\* what they then return: the elementwise result, or the scalar True of a
\* comparison that failed.
ClutterValues(bs, kind) ==
    {[scalar |-> FALSE, mask |-> ClutterMask(bs)]}
    \cup (IF kind = "ragged" THEN {[scalar |-> TRUE, mask |-> <<>>]} ELSE {})

\* from beams = np.array(beams), an array of the kind given, to the
\* return.  `&` is not defined for float64 arrays (TypeError).
Finish(kind) ==
    IF kind = "float64"
    THEN /\ exc' = "TypeError"
         /\ attrs' = [elev |-> elevs, azim |-> azims] @@ attrs
         /\ ret' = ret
    ELSE /\ exc' = exc
         /\ \E clutter \in ClutterValues(beams, kind) :
               /\ attrs' = [elev |-> elevs, azim |-> azims, clutter |-> clutter] @@ attrs
               /\ ret' = [kind |-> kind, data |-> DBZ(beams), attrs |-> attrs']

\* the statements after the beam loop
FinishDX ==
    /\ fn = "readDX" /\ pc = "beams"
    /\ idx >= Len(NewAzimuths(raw)) - 1
    /\ pc' = "done"
    /\ Finish(ArrayKind(beams))
    /\ UNCHANGED <<session, fn, file, sealed, arg, missing, fpos, fstate, header, atend,
                   mychar, raw, idx, beams, elevs, azims, warned>>

-----------------------------------------------------------------------------
(* read_RADOLAN_composite *)

\* read_RADOLAN_composite: mask = 4095
mask == 4095

\* the payload of the RADOLAN file with the header text hd: one byte per cell
\* for RX, else one 16-bit word per cell, with the values 249 and 250 and
\* the bits 14 (nodata), 15 (negative) and 16 (clutter) among them
RadolanPayload(hd) ==
    IF Slice(hd, 0, 2) = <<82, 88>>
    THEN (IF Find(hd, <<50, 120>>) > -1 THEN <<10, 20, 250, 249>> ELSE <<249, 250, 0>>)
    ELSE WordsToBytes(IF Find(hd, <<50, 120>>) > -1
                      THEN <<5, 8192 + 7, 16384 + 9, 32768 + 11>>
                      ELSE <<4095, 8192 + 16384 + 1, 49152 + 3>>)

\* the values of `missing`: the default, and a value that is a payload byte
Sentinels == {-9999, 249}

\* the rows of arr.reshape((nrow, ncol))
Reshape(arr, nrow, ncol) ==
    [r \in 1..nrow |-> [c \in 1..ncol |-> arr[(r - 1) * ncol + c]]]

HasBit(w, b) == BitAnd(w, b) # 0

\* the 0-based indices of arr whose word has bit b: np.where(arr & b)
WhereBit(arr, b) == {k \in 0..(Len(arr) - 1) : HasBit(At(arr, k), b)}

\* the RX branch for the bytes read: [arr, clutter]
DecodeRX(indat, nodataval) ==
    [arr     |-> [k \in 1..Len(indat) |->
                    IF indat[k] = 250 THEN nodataval ELSE indat[k]],
     clutter |-> {k \in 0..(Len(indat) - 1) :
                    (IF At(indat, k) = 250 THEN nodataval ELSE At(indat, k)) = 249}]

\* the cell of the 16-bit branch for the word w: masked, negated for RD
\* when bit 15 is set, scaled, then replaced when bit 14 is set
Cell16(w, rd, precision, nodataval) ==
    IF HasBit(w, 8192) THEN nodataval
    ELSE IF rd /\ HasBit(w, 16384) THEN TimesTenPow(0 - BitAnd(w, mask), precision)
    ELSE TimesTenPow(BitAnd(w, mask), precision)

\* the 16-bit branch for the words read: [arr, clutter]
Decode16(arr16, rd, precision, nodataval) ==
    [arr     |-> [k \in 1..Len(arr16) |-> Cell16(arr16[k], rd, precision, nodataval)],
     clutter |-> WhereBit(arr16, 32768)]

RadolanFailed(e, w, at, nread) ==
    [exc |-> e, warned |-> w, closed |-> FALSE, arr |-> <<>>, attrs |-> at,
     nread |-> nread]

\* from arr.reshape on, for the decoded d = [arr, clutter] of nread bytes
RadolanShaped(at, d, warn, nread) ==
    IF Len(d.arr) # at.nrow * at.ncol \/ at.nrow < 0 \/ at.ncol < 0
    THEN RadolanFailed("ValueError", warn, at, nread)
    ELSE [exc |-> "none", warned |-> warn, closed |-> TRUE,
          arr |-> Reshape(d.arr, at.nrow, at.ncol),
          attrs |-> [cluttermask |-> d.clutter] @@ at,
          nread |-> nread]

\* the RX branch, for the bytes indat that f.read returned
RadolanRX(at, indat, nodataval, warn) ==
    RadolanShaped(at, DecodeRX(indat, nodataval), warn, Len(indat))

\* the 16-bit branch, for the bytes indat that f.read returned
Radolan16(at, indat, nodataval, cast, warn) ==
    IF Len(indat) % 2 # 0 THEN RadolanFailed("ValueError", warn, at, Len(indat))
    ELSE IF at.precision.isfloat /\ cast = "same_kind"
    THEN RadolanFailed("TypeError", warn, at, Len(indat))
    ELSE RadolanShaped(at, Decode16(BytesToWords(indat), at.producttype = <<82, 68>>,
                                    at.precision, nodataval), warn, Len(indat))

\* from `if attrs["producttype"] == "RX"` on, for the bytes after the header
RadolanPayloadDecode(at, rest, nodataval, cast, warn) ==
    IF at.producttype = <<82, 88>>
    THEN RadolanRX(at, Read(rest, 0, at.nrow * at.ncol), nodataval, warn)
    ELSE Radolan16(at, Read(rest, 0, at.nrow * at.ncol * 2), nodataval, cast, warn)

\* read_RADOLAN_composite from the lookup of attrs["radarid"] on, for the
\* dict at and the file bytes `rest` after the header.  `cast` is what the
\* numpy release does when `arr *= precision` multiplies the integer array
\* by a float: "unsafe" stores the products cut to integers, "same_kind"
\* raises.  The result: [exc, warned, closed, arr, attrs, nread].
RadolanDecode(at, rest, nodataval, cast) ==
    IF "radarid" \notin DOMAIN at THEN RadolanFailed("KeyError", FALSE, at, 0)
    ELSE IF "producttype" \notin DOMAIN at
    THEN RadolanFailed("KeyError", at.radarid # <<49, 48, 48, 48, 48>>, at, 0)
    ELSE RadolanPayloadDecode(at, rest, nodataval, cast,
                              at.radarid # <<49, 48, 48, 48, 48>>)

\* f = open(fname, 'rb')
OpenRadolan ==
    /\ fn = "read_RADOLAN_composite" /\ pc = "open"
    /\ fstate' = "open"
    /\ pc' = "scan"
    /\ UNCHANGED <<session, fn, file, sealed, arg, missing, fpos, header, atend, mychar,
                   attrs, raw, idx, beams, elevs, azims, warned, ret, exc>>

\* one pass of `while True` of read_RADOLAN_composite
ScanRadolan ==
    /\ fn = "read_RADOLAN_composite" /\ pc = "scan"
    /\ mychar' = Read(file, fpos, 1)
    /\ fpos' = fpos + Len(mychar')
    /\ IF mychar' = ETX
       THEN pc' = "parse" /\ header' = header
       ELSE pc' = "scan" /\ header' = header \o mychar'
    /\ UNCHANGED <<session, fn, file, sealed, arg, missing, fstate, atend, attrs, raw,
                   idx, beams, elevs, azims, warned, ret, exc>>

\* attrs = parse_DWD_quant_composite_header(header); attrs["nodataflag"] = NODATA
ParseRadolan ==
    /\ fn = "read_RADOLAN_composite" /\ pc = "parse"
    /\ Parsed(parse_DWD_quant_composite_header(header), [nodataflag |-> missing], "decode")
    /\ UNCHANGED <<session, fn, file, sealed, arg, missing, fpos, fstate, header, atend,
                   mychar, raw, idx, beams, elevs, azims, warned, ret>>

\* the rest of read_RADOLAN_composite, with the result r of RadolanDecode
Decoded(r) ==
    /\ exc' = r.exc
    /\ warned' = r.warned
    /\ fstate' = IF r.closed THEN "closed" ELSE fstate
    /\ attrs' = r.attrs
    /\ fpos' = fpos + r.nread
    /\ ret' = IF r.exc = "none"
              THEN [kind |-> "grid", data |-> r.arr, attrs |-> r.attrs]
              ELSE ret

\* the rest of read_RADOLAN_composite
DecodeRadolan ==
    /\ fn = "read_RADOLAN_composite" /\ pc = "decode"
    /\ \E cast \in {"unsafe", "same_kind"} :
          Decoded(RadolanDecode(attrs, Slice(file, fpos, Len(file)), missing, cast))
    /\ pc' = "done"
    /\ UNCHANGED <<session, fn, file, sealed, arg, missing, header, atend, mychar,
                   raw, idx, beams, elevs, azims>>

-----------------------------------------------------------------------------
(* Direct calls of the module's functions *)

\* the return or the exception of a direct call with the result r
Returned(r, kind) ==
    /\ exc' = r.exc
    /\ ret' = IF r.exc = "none" THEN [kind |-> kind, data |-> r.val] ELSE ret
    /\ pc' = "done"
    /\ UNCHANGED <<session, fn, file, sealed, arg, missing, fpos, fstate, header, atend,
                   mychar, attrs, raw, idx, beams, elevs, azims, warned>>

CallUnpackDX ==
    /\ fn = "unpackDX" /\ pc = "call"
    /\ Returned(unpackDX(arg), "beam")

CallParseDX ==
    /\ fn = "parse_DX_header" /\ pc = "call"
    /\ Returned(parse_DX_header(arg), "dict")

CallParseRadolan ==
    /\ fn = "parse_DWD_quant_composite_header" /\ pc = "call"
    /\ Returned(parse_DWD_quant_composite_header(arg), "dict")

-----------------------------------------------------------------------------
(* RainbowDomNode: nodeList, node, hasNode *)

\* a RainbowDomNode: attrMap maps attribute names to values, childMap maps
\* child names to the list of the children of that name in file order; id
\* stands for the identity of the Python object
DomNode(id, name, attrMap, childMap) ==
    [id |-> id, name |-> name, attrMap |-> attrMap, childMap |-> childMap]

\* None
NoneValue == [none |-> TRUE]

\* the result of _splitTag for a tag with "@": attr.split("=") when "=" is in attr
SplitAttr(tag, attr) ==
    IF 61 \in Range(attr)
    THEN (IF Len(Split(attr, 61)) # 2 THEN [exc |-> "ValueError"]
          ELSE [exc |-> "none", tag |-> tag, hasAttr |-> TRUE,
                attr |-> Split(attr, 61)[1], hasVal |-> TRUE,
                attrVal |-> Split(attr, 61)[2]])
    ELSE [exc |-> "none", tag |-> tag, hasAttr |-> TRUE, attr |-> attr,
          hasVal |-> FALSE, attrVal |-> <<>>]

\* _splitTag(tag): (tag, attr, attrVal); hasAttr and hasVal tell attr and
\* attrVal from None.  Unpacking a split of more than two pieces raises.
splitTag(tag) ==
    IF 64 \in Range(tag)
    THEN (IF Len(Split(tag, 64)) # 2 THEN [exc |-> "ValueError"]
          ELSE SplitAttr(Split(tag, 64)[1], Split(tag, 64)[2]))
    ELSE [exc |-> "none", tag |-> tag, hasAttr |-> FALSE, attr |-> <<>>,
          hasVal |-> FALSE, attrVal |-> <<>>]

\* the test of the list comprehensions of nodeList: n.attr(attr) == attrVal,
\* n.hasAttr(attr), or no test
Keeps(n, sp) ==
    IF ~sp.hasAttr THEN TRUE
    ELSE IF sp.hasVal
    THEN sp.attr \in DOMAIN n.attrMap /\ n.attrMap[sp.attr] = sp.attrVal
    ELSE sp.attr \in DOMAIN n.attrMap

\* the elements of the list nodes at the ascending indices `at`
Picked(nodes, at) == SubSeq([k \in 1..Len(at) |-> nodes[at[k]]], 1, Len(at))

\* [n for n in nodeList if ...]
Matching(nodes, sp) ==
    Picked(nodes, Ascending({i \in 1..Len(nodes) : Keeps(nodes[i], sp)}))

RECURSIVE NodeListLoop(_, _, _, _)
RECURSIVE NodeListStep(_, _, _, _)
RECURSIVE NodeListNext(_, _, _)

\* an end of a pass that goes on from the last node of the filtered nodeList
NodeListNext_Last(tagList, k, nl) ==
    IF Len(nl) = 0 THEN [exc |-> "none", val |-> nl]
    ELSE NodeListLoop(nl[Len(nl)], tagList, k + 1, nl)

\* the end of a pass of the loop of nodeList, with the filtered nodeList
NodeListNext(tagList, k, nl) ==
    IF Len(nl) = 0 THEN [exc |-> "none", val |-> nl]
    ELSE NodeListLoop(nl[1], tagList, k + 1, nl)

\* a pass of the loop of nodeList, with the result sp of _splitTag
NodeListStep(curNode, tagList, k, sp) ==
    IF sp.exc # "none" THEN [exc |-> sp.exc]
    ELSE IF sp.tag \notin DOMAIN curNode.childMap THEN [exc |-> "none", val |-> <<>>]
    ELSE NodeListNext(tagList, k, Matching(curNode.childMap[sp.tag], sp))

\* `for tag in tagList` of nodeList from the k-th tag on
NodeListLoop(curNode, tagList, k, nl) ==
    IF k > Len(tagList) THEN [exc |-> "none", val |-> nl]
    ELSE NodeListStep(curNode, tagList, k, splitTag(tagList[k]))

\* RainbowDomNode.nodeList(self, path)
nodeList(self, path) == NodeListLoop(self, Split(path, 47), 1, <<>>)

\* the return of node for the result r of nodeList
FirstOrNone(r) ==
    IF r.exc # "none" THEN r
    ELSE [exc |-> "none", val |-> IF Len(r.val) > 0 THEN r.val[1] ELSE NoneValue]

\* RainbowDomNode.node(self, path)
node(self, path) == FirstOrNone(nodeList(self, path))

\* the return of hasNode for the result r of node
IsNone(r) ==
    IF r.exc # "none" THEN r ELSE [exc |-> "none", val |-> (r.val = NoneValue)]

\* RainbowDomNode.hasNode(self, path)
hasNode(self, path) == IsNone(node(self, path))

\* the longest path, in segments
MaxSegments == 2

\* a leaf
Leaf(id, name, attrMap) == DomNode(id, name, attrMap, <<>>)

NoAttrs == <<>>

\* a tree with children of one name: the first "a" has no attribute x and
\* one b, the second and the third have x="1" and their own b's; d has an
\* attribute with the empty value
DomTreeA ==
    DomNode(0, Txt(<<"r">>), NoAttrs,
        (Txt(<<"a">>) :>
            <<DomNode(1, Txt(<<"a">>), NoAttrs,
                  (Txt(<<"b">>) :> <<Leaf(11, Txt(<<"b">>), (Txt(<<"y">>) :> Txt(<<"1">>)))>>)),
              DomNode(2, Txt(<<"a">>), (Txt(<<"x">>) :> Txt(<<"1">>)),
                  (Txt(<<"b">>) :>
                      <<Leaf(21, Txt(<<"b">>), NoAttrs),
                        Leaf(22, Txt(<<"b">>), (Txt(<<"y">>) :> Txt(<<"1">>))),
                        Leaf(23, Txt(<<"b">>), (Txt(<<"y">>) :> Txt(<<"2">>))),
                        Leaf(24, Txt(<<"b">>), (Txt(<<"y">>) :> Txt(<<"1">>)))>>)),
              DomNode(3, Txt(<<"a">>), (Txt(<<"x">>) :> Txt(<<"1">>)),
                  (Txt(<<"b">>) :> <<Leaf(31, Txt(<<"b">>), (Txt(<<"y">>) :> Txt(<<"1">>)))>>))>>)
        @@ (Txt(<<"d">>) :> <<Leaf(4, Txt(<<"d">>), (Txt(<<"w">>) :> <<>>))>>))

\* a node without children
DomTreeB == Leaf(0, Txt(<<"r">>), (Txt(<<"x">>) :> Txt(<<"1">>)))

DomTrees == {DomTreeA, DomTreeB}

\* the segments of the paths: a name, and no test or one of @x, @x=1, @y=1, @w
DomSegments ==
    {n \o t : n \in {Txt(<<"a">>), Txt(<<"b">>), Txt(<<"z">>)},
              t \in {<<>>, Txt(<<"@", "x">>), Txt(<<"@", "x", "=", "1">>),
                     Txt(<<"@", "y", "=", "1">>), Txt(<<"@", "w">>)}}

\* the paths of at most n segments
RECURSIVE PathsUpTo(_)
PathsUpTo(n) ==
    IF n = 1 THEN DomSegments
    ELSE PathsUpTo(n - 1) \cup {p \o <<47>> \o s : p \in PathsUpTo(n - 1), s \in DomSegments}

\* paths outside the enumeration: empty, with an empty segment, with a test
\* for the empty value, and with two "@" or two "=" in a segment
DomOddPaths ==
    {<<>>, Txt(<<"a", "/">>), Txt(<<"/", "a">>), Txt(<<"d", "@", "w">>),
     Txt(<<"d", "@", "w", "=">>), Txt(<<"a", "=", "1">>),
     Txt(<<"a", "@", "x", "@", "y">>), Txt(<<"a", "@", "x", "=", "1", "=", "2">>)}

DomPaths == PathsUpTo(MaxSegments) \cup DomOddPaths

CallNodeList ==
    /\ fn = "nodeList" /\ pc = "call"
    /\ Returned(nodeList(arg.self, arg.path), "list")

CallNode ==
    /\ fn = "node" /\ pc = "call"
    /\ Returned(node(arg.self, arg.path), "node")

CallHasNode ==
    /\ fn = "hasNode" /\ pc = "call"
    /\ Returned(hasNode(arg.self, arg.path), "bool")

-----------------------------------------------------------------------------
(* find_key *)

\* the values of the nested dict that xmltodict.parse returns: a dict with
\* its items in iteration order (id stands for the identity of the Python
\* object), a list, a text, or None
XDict(id, items) == [type |-> "dict", id |-> id, items |-> items]
XItem(k, v) == [k |-> k, v |-> v]
XList(elems) == [type |-> "list", elems |-> elems]
XText(t) == [type |-> "text", text |-> t]
XNone == [type |-> "none"]

\* the results of two generators in sequence: what list(...) makes of them
Yielded(vals) == [exc |-> "none", val |-> vals]
ThenYield(a, b) ==
    IF a.exc # "none" THEN a
    ELSE IF b.exc # "none" THEN b
    ELSE Yielded(a.val \o b.val)

RECURSIVE find_key(_, _)
RECURSIVE FindKeyItems(_, _, _)
RECURSIVE FindKeyList(_, _, _)

\* `for d in v` of find_key from the k-th element on
FindKeyList(key, elems, k) ==
    IF k > Len(elems) THEN Yielded(<<>>)
    ELSE ThenYield(find_key(key, elems[k]), FindKeyList(key, elems, k + 1))

\* the body of `for k, v in dictionary.iteritems()` for one item
FindKeyItem(key, dictionary, item) ==
    IF item.k = key THEN Yielded(<<dictionary>>)
    ELSE IF item.v.type = "dict" THEN find_key(key, item.v)
    ELSE IF item.v.type = "list" THEN FindKeyList(key, item.v.elems, 1)
    ELSE Yielded(<<>>)

\* `for k, v in dictionary.iteritems()` from the k-th item on
FindKeyItems(key, dictionary, k) ==
    IF k > Len(dictionary.items) THEN Yielded(<<>>)
    ELSE ThenYield(FindKeyItem(key, dictionary, dictionary.items[k]),
                   FindKeyItems(key, dictionary, k + 1))

\* list(find_key(key, dictionary)); only a dict has iteritems
find_key(key, dictionary) ==
    IF dictionary.type # "dict" THEN [exc |-> "AttributeError"]
    ELSE FindKeyItems(key, dictionary, 1)

BlobIdKey == Txt(<<"@", "b", "l", "o", "b", "i", "d">>)

\* a descriptor dict with the blobid given
XBlob(id, blobid) == XDict(id, <<XItem(BlobIdKey, XText(blobid))>>)

\* nested dicts and a list of dicts, blob descriptors at depths 3 and 4 and
\* below a descriptor
XTreeNested ==
    XDict(1, <<XItem(Txt(<<"a">>),
        XDict(2, <<XItem(Txt(<<"@", "x">>), XText(Txt(<<"5">>))),
                   XItem(Txt(<<"s">>), XList(<<
                       XDict(3, <<XItem(Txt(<<"d">>),
                           XDict(4, <<XItem(Txt(<<"r">>), XBlob(5, Txt(<<"0">>))),
                                      XItem(Txt(<<"w">>),
                                          XDict(6, <<XItem(Txt(<<"n">>), XNone),
                                                     XItem(BlobIdKey, XText(Txt(<<"1">>))),
                                                     XItem(Txt(<<"c">>), XBlob(7, Txt(<<"2">>)))>>))>>))>>),
                       XBlob(8, Txt(<<"3">>))>>))>>))>>)

\* a list of plain texts beside a descriptor: <a>x</a><a>y</a><b blobid="0"/>
XTreeTexts ==
    XDict(1, <<XItem(Txt(<<"a">>), XList(<<XText(Txt(<<"x">>)), XText(Txt(<<"y">>))>>)),
               XItem(Txt(<<"b">>), XBlob(2, Txt(<<"0">>)))>>)

\* a list with a text after a descriptor
XTreeMixed ==
    XDict(1, <<XItem(Txt(<<"a">>), XList(<<XBlob(2, Txt(<<"0">>)), XText(Txt(<<"x">>))>>))>>)

\* a dict without items, and one without descriptors
XTreeEmpty == XDict(1, <<>>)
XTreePlain == XDict(1, <<XItem(Txt(<<"a">>), XText(Txt(<<"x">>))), XItem(Txt(<<"b">>), XNone)>>)

XTrees == {XTreeNested, XTreeTexts, XTreeMixed, XTreeEmpty, XTreePlain}

XKeys == {BlobIdKey, Txt(<<"@", "x">>), Txt(<<"a">>)}

CallFindKey ==
    /\ fn = "find_key" /\ pc = "call"
    /\ Returned(find_key(arg.key, arg.dictionary), "list")

-----------------------------------------------------------------------------
(* get_RB_blob_data and decompress *)

\* str(n) of an int n >= 0
RECURSIVE DecimalOf(_)
DecimalOf(n) ==
    IF n < 10 THEN <<48 + n>> ELSE DecimalOf(n \div 10) \o <<48 + (n % 10)>>

\* s.find(sub, start) for a start >= 0
FindFrom(s, sub, start) ==
    LeastOr({i \in start..(Len(s) - Len(sub)) : Slice(s, i, i + Len(sub)) = sub}, -1)

\* a dict without items
EmptyDict == [k \in {} |-> <<>>]

XmlError == [exc |-> "ExpatError", val |-> EmptyDict]

RECURSIVE XmlAttrs(_, _, _)

\* one attribute whose name starts at q and whose value starts at from and
\* ends before the quote at close; a name may not be repeated
XmlValue(s, name, from, close, acc) ==
    IF close = -1 \/ (\E k \in 1..Len(name) : IsSpace(name[k]))
       \/ (<<64>> \o name) \in DOMAIN acc
    THEN XmlError
    ELSE XmlAttrs(s, close + 1, acc @@ ((<<64>> \o name) :> Slice(s, from, close)))

XmlAttr(s, q, eq, acc) ==
    IF eq = -1 \/ eq = q \/ eq + 1 >= Len(s) \/ Slice(s, eq + 1, eq + 2) # <<34>>
    THEN XmlError
    ELSE XmlValue(s, Slice(s, q, eq), eq + 2, FindFrom(s, <<34>>, eq + 2), acc)

\* the attributes of a start tag from position p on, written name="value"
\* and each preceded by white space, as a dict with the keys '@' + name
XmlAttrsAt(s, p, q, acc) ==
    IF q = Len(s) THEN [exc |-> "none", val |-> acc]
    ELSE IF q = p THEN XmlError
    ELSE XmlAttr(s, q, FindFrom(s, <<61>>, q), acc)

XmlAttrs(s, p, acc) ==
    XmlAttrsAt(s, p, LeastOr({i \in p..(Len(s) - 1) : ~IsSpace(At(s, i))}, Len(s)), acc)

\* xmltodict.parse(xmlstring + '</BLOB>')['BLOB'] for the text of one start
\* tag: well formed only if the text is '<BLOB', attributes, '>'
XmlBlobTag(xmlstring) ==
    IF Len(xmlstring) >= 6 /\ Slice(xmlstring, 0, 5) = Txt(<<"<", "B", "L", "O", "B">>)
       /\ Slice(xmlstring, -1, Len(xmlstring)) = <<62>>
    THEN XmlAttrs(Slice(xmlstring, 5, -1), 0, EmptyDict)
    ELSE XmlError

\* the Adler-32 sums of a byte string: s1 = 1 + sum of the bytes and s2 = sum
\* of the running values of s1, both modulo 65521
AdlerBase == 65521

\* the sums after one more byte b
AdlerStep(sums, b) ==
    [s1 |-> (sums.s1 + b) % AdlerBase, s2 |-> (sums.s2 + sums.s1 + b) % AdlerBase]

RECURSIVE AdlerSums(_, _)
AdlerSums(bs, k) ==
    IF k = 0 THEN [s1 |-> 1, s2 |-> 0] ELSE AdlerStep(AdlerSums(bs, k - 1), bs[k])

\* the four bytes of the check value, most significant first
AdlerBytes(sums) ==
    <<sums.s2 \div 256, sums.s2 % 256, sums.s1 \div 256, sums.s1 % 256>>

Adler32(bs) == AdlerBytes(AdlerSums(bs, Len(bs)))

ZlibError == [exc |-> "zlib.error", val |-> <<>>]

\* the two header bytes of a zlib stream: method 8, window at most 32K, a
\* multiple of 31, no preset dictionary
ZlibHeaderOK(s) ==
    /\ Len(s) >= 2
    /\ s[1] % 16 = 8 /\ s[1] \div 16 <= 7
    /\ (s[1] * 256 + s[2]) % 31 = 0
    /\ (s[2] \div 32) % 2 = 0

\* after the last block: the check value of the output; what follows it is
\* ignored
InflateEnd(s, p, out) ==
    IF Slice(s, p, p + 4) = Adler32(out) THEN [exc |-> "none", val |-> out]
    ELSE ZlibError

RECURSIVE InflateBlocks(_, _, _)

\* a stored block whose header byte is at p: LEN and its complement NLEN,
\* least significant byte first, then LEN bytes
InflateStored(s, p, len, nlen, out) ==
    IF len + nlen # 65535 \/ Len(s) < p + 5 + len THEN ZlibError
    ELSE IF At(s, p) % 2 = 1 THEN InflateEnd(s, p + 5 + len, out \o Slice(s, p + 5, p + 5 + len))
    ELSE InflateBlocks(s, p + 5 + len, out \o Slice(s, p + 5, p + 5 + len))

\* the blocks of a deflate stream from p on.  Bit 0 of a block's first byte
\* marks the last block, bits 1-2 are its type: 0 stored, 3 invalid.  The
\* Huffman-coded types 1 and 2 are not decoded here: no buffer of the model
\* holds such a block
InflateBlocks(s, p, out) ==
    IF Len(s) < p + 5 THEN ZlibError
    ELSE IF (At(s, p) \div 2) % 4 = 0
    THEN InflateStored(s, p, At(s, p + 1) + 256 * At(s, p + 2),
                       At(s, p + 3) + 256 * At(s, p + 4), out)
    ELSE IF (At(s, p) \div 2) % 4 = 3 THEN ZlibError
    ELSE [exc |-> "huffman", val |-> <<>>]

\* zlib.decompress(data)
decompress(stream) ==
    IF ZlibHeaderOK(stream) THEN InflateBlocks(stream, 2, <<>>) ELSE ZlibError

\* r'<BLOB blobid="{}"'.format(blobid)
searchString_Open(blobid) ==
    Txt(<<"<", "B", "L", "O", "B", " ", "b", "l", "o", "b", "i", "d", "=", "\"">>)
    \o DecimalOf(blobid)

searchString(blobid) ==
    Txt(<<"<", "B", "L", "O", "B", " ", "b", "l", "o", "b", "i", "d", "=", "\"">>)
    \o DecimalOf(blobid) \o <<34>>

CompressionKey == Txt(<<"@", "c", "o", "m", "p", "r", "e", "s", "s", "i", "o", "n">>)

SizeKey == Txt(<<"@", "s", "i", "z", "e">>)

Qt == Txt(<<"q", "t">>)

\* data[4:]: the stream after the four bytes that precede it
QtStream_Whole(blob) == blob

QtStream(blob) == Slice(blob, 4, Len(blob))

\* if cmpr == "qt": data = decompress(data[4:])
BlobData(cmpr, blob) ==
    IF cmpr = Qt THEN decompress(QtStream(blob)) ELSE [exc |-> "none", val |-> blob]

\* data = datastring[end + 2:end + 2 + size]
BlobSized(datastring, end, cmpr, size) ==
    IF ~size.ok THEN [exc |-> "ValueError", val |-> <<>>]
    ELSE BlobData(cmpr, Slice(datastring, end + 2, end + 2 + size.val))

\* cmpr = get_RB_blob_attribute(xmldict, 'compression'), then
\* size = int(get_RB_blob_attribute(xmldict, 'size'))
BlobTagged(datastring, end, xmldict) ==
    IF xmldict.exc # "none" THEN [exc |-> xmldict.exc, val |-> <<>>]
    ELSE IF CompressionKey \notin DOMAIN xmldict.val \/ SizeKey \notin DOMAIN xmldict.val
    THEN [exc |-> "KeyError", val |-> <<>>]
    ELSE BlobSized(datastring, end, xmldict.val[CompressionKey],
                   ParseInt(xmldict.val[SizeKey]))

\* end = datastring.find('>', start); xmlstring = datastring[start:end + 1]
BlobTag(datastring, start, end) ==
    BlobTagged(datastring, end, XmlBlobTag(Slice(datastring, start, end + 1)))

BlobFound(datastring, start) ==
    IF start = -1 THEN [exc |-> "EOFError", val |-> <<>>]
    ELSE BlobTag(datastring, start, FindFrom(datastring, <<62>>, start))

get_RB_blob_data(datastring, blobid) ==
    BlobFound(datastring, Find(datastring, searchString(blobid)))

\* zlib.compress(bs, 0) of fewer than 65536 bytes: one stored block
Deflate(bs) ==
    <<120, 1, 1, Len(bs) % 256, Len(bs) \div 256,
      255 - (Len(bs) % 256), 255 - (Len(bs) \div 256)>> \o bs \o Adler32(bs)

\* a "qt" payload: the length of the data in four bytes, then its zlib stream
QtPack(bs) == <<0, 0, 0, Len(bs)>> \o Deflate(bs)

\* the start tag of a BLOB; form names the attribute that is left out
RBTag(id, size, cmpr, form) ==
    Txt(<<"<", "B", "L", "O", "B", " ", "b", "l", "o", "b", "i", "d", "=", "\"">>)
    \o DecimalOf(id) \o <<34>>
    \o (IF form = "nosize" THEN <<>>
        ELSE Txt(<<" ", "s", "i", "z", "e", "=", "\"">>) \o size \o <<34>>)
    \o (IF form = "nocompression" THEN <<>>
        ELSE Txt(<<" ", "c", "o", "m", "p", "r", "e", "s", "s", "i", "o", "n", "=", "\"">>)
             \o cmpr \o <<34>>)
    \o <<62>>

RBTrailer == Txt(<<"<", "/", "B", "L", "O", "B", ">">>) \o <<10>>

\* one BLOB as a Rainbow file holds it: tag, newline, payload, newline, end tag
RBBlob(id, size, cmpr, payload) ==
    RBTag(id, size, cmpr, "full") \o <<10>> \o payload \o <<10>> \o RBTrailer

\* what precedes the BLOBs
RBProlog == Txt(<<"<", "!", "-", "-", " ", "E", "N", "D", " ", "X", "M", "L", " ", "-", "-", ">">>) \o <<10>>

RBDatas == {<<>>, <<7>>, <<1, 2, 3>>}

\* compression attribute and payload bytes: uncompressed, "qt", a name that
\* differs from "qt" by case only, and "qt" payloads that are no zlib stream
RBPayloads ==
    {[cmpr |-> Txt(<<"n", "o", "n", "e">>), bytes |-> d] : d \in RBDatas}
    \cup {[cmpr |-> Qt, bytes |-> QtPack(d)] : d \in RBDatas}
    \cup {[cmpr |-> Txt(<<"Q", "T">>), bytes |-> QtPack(d)] : d \in {<<7>>}}
    \cup {[cmpr |-> Qt, bytes |-> d] : d \in {<<1, 2, 3>>, <<0, 0, 0, 1, 120, 1, 1, 1, 0, 254, 255, 7, 0, 8, 0, 9>>}}

\* the declared sizes: the payload's length, less, and more than the buffer
\* holds after the tag
RBDeclared(n) == {n, n + 20} \cup (IF n > 0 THEN {n - 1} ELSE {})

\* buffers with one BLOB, whole or ending inside the payload
RBSingle ==
    UNION {UNION {{RBProlog \o RBBlob(id, DecimalOf(m), p.cmpr, p.bytes),
                   Slice(RBProlog \o RBBlob(id, DecimalOf(m), p.cmpr, p.bytes), 0,
                         0 - (Len(RBTrailer) + 2))}
                  : m \in RBDeclared(Len(p.bytes))}
           : id \in {1, 10}, p \in RBPayloads}

None4 == Txt(<<"n", "o", "n", "e">>)

\* buffers with two BLOBs: an id that has the other as a prefix, before and
\* after it, and the same id twice
RBDouble ==
    {RBProlog \o RBBlob(ids[1], DecimalOf(1), None4, <<7>>)
              \o RBBlob(ids[2], DecimalOf(2), None4, <<8, 9>>)
        : ids \in {<<10, 1>>, <<1, 10>>, <<1, 1>>}}

\* buffers without a BLOB, with a tag that is cut before its '>', with a tag
\* that lacks an attribute, and with a size that is no numeral
RBOdd ==
    {<<>>, RBProlog,
     RBProlog \o Txt(<<"<", "B", "L", "O", "B", " ", "b", "l", "o", "b", "i", "d", "=", "\"", "1", "\"", " ", "s", "i">>),
     RBProlog \o RBTag(1, DecimalOf(1), None4, "nosize") \o <<10, 7, 10>> \o RBTrailer,
     RBProlog \o RBTag(1, DecimalOf(1), None4, "nocompression") \o <<10, 7, 10>> \o RBTrailer,
     RBProlog \o RBBlob(1, Txt(<<"x">>), None4, <<7>>)}

RBStrings == RBSingle \cup RBDouble \cup RBOdd

RBBlobIds == {1, 2, 10}

CallGetRBBlobData ==
    /\ fn = "get_RB_blob_data" /\ pc = "call"
    /\ Returned(get_RB_blob_data(arg.datastring, arg.blobid), "bytes")

-----------------------------------------------------------------------------
(* get_RB_data_layout, get_RB_data_attribute, map_RB_data and *)
(* get_RB_blob_from_string; sys.byteorder is an input of the call *)

\* the byte order of the elements: the one that is not the host's
byteorder_Native(sysbyteorder) == IF sysbyteorder # "big" THEN "<" ELSE ">"

byteorder(sysbyteorder) == IF sysbyteorder # "big" THEN ">" ELSE "<"

\* the widths get_RB_data_layout accepts
DataWidths == {1, 2, 4}

\* datawidth = datadepth / 8 is the floor division of two ints
LayoutOf(sysbyteorder, datadepth, datawidth) ==
    IF datawidth \in DataWidths
    THEN [exc |-> "none",
          val |-> [datawidth |-> datawidth,
                   datatype |-> [order |-> byteorder(sysbyteorder), kind |-> "u",
                                 width |-> datawidth]]]
    ELSE [exc |-> "ValueError", val |-> NoneValue]

get_RB_data_layout(sysbyteorder, datadepth) ==
    LayoutOf(sysbyteorder, datadepth, datadepth \div 8)

\* the unsigned value of a group of bytes, most significant byte first
RECURSIVE BigEndian(_)
BigEndian(bs) ==
    IF Len(bs) = 0 THEN 0
    ELSE 256 * BigEndian(SubSeq(bs, 1, Len(bs) - 1)) + bs[Len(bs)]

\* the unsigned value of a group of bytes, least significant byte first
RECURSIVE LittleEndian(_)
LittleEndian(bs) ==
    IF Len(bs) = 0 THEN 0 ELSE bs[1] + 256 * LittleEndian(Tail(bs))

\* one element of dtype datatype
Element(bs, datatype) ==
    IF datatype.order = ">" THEN BigEndian(bs) ELSE LittleEndian(bs)

\* np.ndarray(shape=(n,), dtype=datatype, buffer=blob): the first n elements
\* of the buffer; bytes after them are not used
NdArray(blob, n, datatype) ==
    [shape |-> <<n>>,
     dtype |-> datatype,
     values |-> SubSeq([i \in 1..n |->
                          Element(SubSeq(blob, (i - 1) * datatype.width + 1,
                                         i * datatype.width), datatype)], 1, n)]

Mapped(blob, layout) ==
    IF layout.exc # "none" THEN layout
    ELSE [exc |-> "none",
          val |-> NdArray(blob, Len(blob) \div layout.val.datawidth, layout.val.datatype)]

map_RB_data(sysbyteorder, blob, datadepth) ==
    Mapped(blob, get_RB_data_layout(sysbyteorder, datadepth))

\* '@' + attr
AttrKey(attr) == <<64>> \o attr

Bins == Txt(<<"b", "i", "n", "s">>)

\* int(xmldict['@' + attr]); whatever fails there gives None for 'bins' and
\* a KeyError for every other attribute (isint
\* tells an int from None)
AttributeOr(attr, found, n) ==
    IF found /\ n.ok THEN [exc |-> "none", val |-> n.val, isint |-> TRUE]
    ELSE IF attr = Bins THEN [exc |-> "none", val |-> NoneValue, isint |-> FALSE]
    ELSE [exc |-> "KeyError", val |-> NoneValue, isint |-> FALSE]

get_RB_data_attribute(xmldict, attr) ==
    IF AttrKey(attr) \in DOMAIN xmldict
    THEN AttributeOr(attr, TRUE, ParseInt(xmldict[AttrKey(attr)]))
    ELSE AttributeOr(attr, FALSE, [ok |-> FALSE, val |-> 0])

\* data.shape = (rays, bins) for dimensions >= 0: the number of elements
\* may not change
Reshaped(arr, rays, bins) ==
    IF rays.exc # "none" THEN rays
    ELSE IF rays.val * bins # Len(arr.values) THEN [exc |-> "ValueError", val |-> NoneValue]
    ELSE [exc |-> "none", val |-> [arr EXCEPT !.shape = <<rays.val, bins>>]]

\* a reshape made whenever bins is not None (`if bins is not None`)
BlobShaped_NotNone(blobdict, arr, bins) ==
    IF arr.exc # "none" THEN arr
    ELSE IF ~bins.isint THEN arr
    ELSE Reshaped(arr.val, get_RB_data_attribute(blobdict, Txt(<<"r", "a", "y", "s">>)),
                  bins.val)

\* bins = get_RB_data_attribute(blobdict, 'bins'); if bins: ...
BlobShaped(blobdict, arr, bins) ==
    IF arr.exc # "none" THEN arr
    ELSE IF ~bins.isint \/ bins.val = 0 THEN arr
    ELSE Reshaped(arr.val, get_RB_data_attribute(blobdict, Txt(<<"r", "a", "y", "s">>)),
                  bins.val)

BlobMapped(sysbyteorder, blobdict, blob, datadepth) ==
    IF blob.exc # "none" THEN [exc |-> blob.exc, val |-> NoneValue]
    ELSE IF datadepth.exc # "none" THEN datadepth
    ELSE BlobShaped(blobdict, map_RB_data(sysbyteorder, blob.val, datadepth.val),
                    get_RB_data_attribute(blobdict, Bins))

BlobOf(sysbyteorder, datastring, blobdict, blobid) ==
    IF blobid.exc # "none" THEN blobid
    ELSE BlobMapped(sysbyteorder, blobdict, get_RB_blob_data(datastring, blobid.val),
                    get_RB_data_attribute(blobdict, Txt(<<"d", "e", "p", "t", "h">>)))

get_RB_blob_from_string(sysbyteorder, datastring, blobdict) ==
    BlobOf(sysbyteorder, datastring, blobdict,
           get_RB_data_attribute(blobdict, Txt(<<"b", "l", "o", "b", "i", "d">>)))

\* the hosts
SysByteOrders == {"little", "big"}

\* the depths: the three of the format, their neighbours, and depths far off
RBDepths == {-8, 0, 1, 7, 8, 9, 12, 15, 16, 17, 23, 24, 31, 32, 33, 39, 40, 64}

\* byte strings to map: empty, shorter than an element, whole elements, and
\* whole elements with bytes left over (every group of four bytes is below
\* 2^31 in both byte orders)
RBBuffers ==
    {<<>>, <<200>>, <<1, 2>>, <<1, 255, 3>>, <<0, 0, 1, 2>>, <<1, 2, 3, 4, 5>>,
     <<127, 254, 0, 1, 100, 0, 0, 7>>}

\* eight 16-bit values and four 32-bit values; read as 32-bit elements in
\* either byte order they stay below 2^31
RBValues16 == <<258, 1, 2, 3, 4, 5, 6, 32639>>

RBValues32 == <<16909060, 1, 65536, 2139062143>>

\* the bytes of n, w of them, in the given order
RECURSIVE BytesOf(_, _, _)
BytesOf(n, w, order) ==
    IF w = 0 THEN <<>>
    ELSE IF order = ">" THEN BytesOf(n \div 256, w - 1, order) \o <<n % 256>>
    ELSE <<n % 256>> \o BytesOf(n \div 256, w - 1, order)

RECURSIVE Encoded(_, _, _)
Encoded(vals, w, order) ==
    IF Len(vals) = 0 THEN <<>>
    ELSE BytesOf(Head(vals), w, order) \o Encoded(Tail(vals), w, order)

\* a blob description: the attributes of a descriptor element
BlobDict(blobid, depth, bins, rays) ==
    (AttrKey(Txt(<<"b", "l", "o", "b", "i", "d">>)) :> blobid)
    @@ (IF depth = <<>> THEN EmptyDict
        ELSE AttrKey(Txt(<<"d", "e", "p", "t", "h">>)) :> depth)
    @@ (IF bins = <<>> THEN EmptyDict ELSE AttrKey(Bins) :> bins)
    @@ (IF rays = <<>> THEN EmptyDict ELSE AttrKey(Txt(<<"r", "a", "y", "s">>)) :> rays)

\* descriptors of the blob 1: 2 rays of 4 bins, flat data, shapes that do
\* not fit, depths in and out of the format, attributes left out
RBBlobDicts ==
    {BlobDict(DecimalOf(1), DecimalOf(d), DecimalOf(4), DecimalOf(2)) : d \in {8, 12, 16, 32}}
    \cup {BlobDict(DecimalOf(1), DecimalOf(16), b, r) :
            b \in {<<>>, DecimalOf(0), DecimalOf(3), DecimalOf(8)},
            r \in {<<>>, DecimalOf(1)}}
    \cup {BlobDict(DecimalOf(1), <<>>, DecimalOf(4), DecimalOf(2)),
          BlobDict(DecimalOf(2), DecimalOf(16), DecimalOf(4), DecimalOf(2)),
          BlobDict(Txt(<<"x">>), DecimalOf(16), DecimalOf(4), DecimalOf(2))}

\* buffers whose blob 1 holds the eight 16-bit values in either byte order,
\* plain, compressed and cut short, or the four 32-bit values, or eight bytes
RBArrayStrings ==
    {RBProlog \o RBBlob(1, DecimalOf(16), None4, Encoded(RBValues16, 2, o)) :
        o \in {"<", ">"}}
    \cup {RBProlog \o RBBlob(1, DecimalOf(Len(QtPack(Encoded(RBValues16, 2, ">")))), Qt,
                             QtPack(Encoded(RBValues16, 2, ">"))),
          Slice(RBProlog \o RBBlob(1, DecimalOf(16), None4, Encoded(RBValues16, 2, ">")),
                0, 0 - (Len(RBTrailer) + 4)),
          RBProlog \o RBBlob(1, DecimalOf(16), None4, Encoded(RBValues32, 4, ">")),
          RBProlog \o RBBlob(1, DecimalOf(8), None4, <<0, 255, 2, 3, 4, 200, 6, 7>>)}

CallGetRBDataLayout ==
    /\ fn = "get_RB_data_layout" /\ pc = "call"
    /\ Returned(get_RB_data_layout(arg.sysbyteorder, arg.datadepth), "layout")

CallMapRBData ==
    /\ fn = "map_RB_data" /\ pc = "call"
    /\ Returned(map_RB_data(arg.sysbyteorder, arg.data, arg.datadepth), "array")

CallGetRBBlobFromString ==
    /\ fn = "get_RB_blob_from_string" /\ pc = "call"
    /\ Returned(get_RB_blob_from_string(arg.sysbyteorder, arg.datastring, arg.blobdict),
                "array")

-----------------------------------------------------------------------------
(* get_RB_file_as_string and get_RB_header *)

endXMLmarker ==
    Txt(<<"<", "!", "-", "-", " ", "E", "N", "D", " ", "X", "M", "L", " ", "-", "-", ">">>)

\* fid.readline() at position p: the bytes up to and with the next newline,
\* or up to the end of the file
Readline(bytes, p) ==
    IF FindFrom(bytes, <<10>>, p) = -1 THEN Slice(bytes, p, Len(bytes))
    ELSE Slice(bytes, p, FindFrom(bytes, <<10>>, p) + 1)

\* line.startswith(prefix)
StartsWith(line, prefix) == Slice(line, 0, Len(prefix)) = prefix

\* the dict of a root element without content: its attributes, None if it
\* has none
XmlRootDict(name, attributes) ==
    IF attributes.exc # "none" THEN [exc |-> "ExpatError", val |-> NoneValue]
    ELSE [exc |-> "none",
          val |-> (name :> (IF DOMAIN attributes.val = {} THEN NoneValue
                            ELSE attributes.val))]

\* the root element of the text t: its start tag ends at close, its name
\* ends before nameEnd.  Only a root without content, <name ...></name>, is
\* parsed here: no file of the model holds a root with content
XmlRoot(t, close, nameEnd) ==
    IF nameEnd = 1 THEN [exc |-> "ExpatError", val |-> NoneValue]
    ELSE IF Slice(t, close + 1, Len(t)) = <<60, 47>> \o Slice(t, 1, nameEnd) \o <<62>>
    THEN XmlRootDict(Slice(t, 1, nameEnd), XmlAttrs(Slice(t, nameEnd, close), 0, EmptyDict))
    ELSE [exc |-> "content", val |-> NoneValue]

\* xmltodict.parse(header): a text that is empty, does not start with '<' or
\* does not end with '>' is not well formed
XmlDocumentOf(t) ==
    IF Len(t) = 0 \/ Slice(t, 0, 1) # <<60>> \/ Slice(t, -1, Len(t)) # <<62>>
    THEN [exc |-> "ExpatError", val |-> NoneValue]
    ELSE XmlRoot(t, Find(t, <<62>>),
                 LeastOr({i \in 1..(Len(t) - 1) : IsSpace(At(t, i)) \/ At(t, i) = 62}, 1))

XmlDocument(text) == XmlDocumentOf(Strip(text))

\* fid = open(filename, "rb"); a file that cannot be opened makes the call
\* return False
OpenedRB ==
    /\ pc = "open"
    /\ IF arg.exists
       THEN fstate' = "open" /\ pc' = "read" /\ ret' = ret
       ELSE fstate' = fstate /\ pc' = "done" /\ ret' = [kind |-> "bool", data |-> FALSE]
    /\ UNCHANGED <<session, fn, file, sealed, arg, missing, fpos, header, atend, mychar,
                   attrs, raw, idx, beams, elevs, azims, warned, exc>>

OpenRBFile == fn = "get_RB_file_as_string" /\ OpenedRB

\* dataString = fid.read(); fid.close(); return dataString
ReadRBFile ==
    /\ fn = "get_RB_file_as_string" /\ pc = "read"
    /\ ret' = [kind |-> "bytes", data |-> Slice(file, fpos, Len(file))]
    /\ fpos' = Len(file)
    /\ fstate' = "closed"
    /\ pc' = "done"
    /\ UNCHANGED <<session, fn, file, sealed, arg, missing, header, atend, mychar,
                   attrs, raw, idx, beams, elevs, azims, warned, exc>>

OpenRBHeader == fn = "get_RB_header" /\ OpenedRB

\* the test and one pass of `while not line.startswith(endXMLmarker)`;
\* mychar holds the local `line`
ReadlineRBHeader ==
    /\ fn = "get_RB_header" /\ pc = "read"
    /\ IF StartsWith(mychar, endXMLmarker)
       THEN pc' = "parse" /\ UNCHANGED <<header, mychar, fpos>>
       ELSE /\ header' = header \o Slice(mychar, 0, -1)
            /\ mychar' = Readline(file, fpos)
            /\ fpos' = fpos + Len(mychar')
            /\ pc' = IF Len(mychar') = 0 THEN "parse" ELSE "read"
    /\ UNCHANGED <<session, fn, file, sealed, arg, missing, fstate, atend,
                   attrs, raw, idx, beams, elevs, azims, warned, ret, exc>>

\* the return of get_RB_header for the result r of xmltodict.parse
ParsedRBHeader(r) ==
    /\ exc' = r.exc
    /\ ret' = IF r.exc = "none" THEN [kind |-> "dict", data |-> r.val] ELSE ret

\* fid.close(); return xmltodict.parse(header)
ParseRBHeader ==
    /\ fn = "get_RB_header" /\ pc = "parse"
    /\ fstate' = "closed"
    /\ ParsedRBHeader(XmlDocument(header))
    /\ pc' = "done"
    /\ UNCHANGED <<session, fn, file, sealed, arg, missing, fpos, header, atend, mychar,
                   attrs, raw, idx, beams, elevs, azims, warned>>

\* the XML part of a Rainbow file: one element with the given attributes text
RBHeaderDoc(attributes) ==
    Txt(<<"<", "s", "c", "a", "n">>) \o attributes \o <<62>>
    \o Txt(<<"<", "/", "s", "c", "a", "n", ">">>)

RBAttributeTexts ==
    {<<>>, Txt(<<" ", "a", "=", "\"", "1", "\"">>),
     Txt(<<" ", "a", "=", "\"", "1", "\"", " ", "b", "=", "\"", "x", "\"">>),
     Txt(<<" ", "a", "=", "1">>), <<10>> \o Txt(<<" ", "a", "=", "\"", "1", "\"">>)}

\* what follows the XML part: nothing, the end marker, the end marker and a BLOB
RBTails ==
    {<<>>, <<10>>, <<10>> \o endXMLmarker, <<10>> \o endXMLmarker \o <<10>>,
     <<10>> \o endXMLmarker \o <<10>> \o RBBlob(1, DecimalOf(1), None4, <<7>>)}

\* the Rainbow files: an XML part and what follows it, an empty file, a file
\* that begins with the end marker, and a file without XML
RBFiles ==
    {RBHeaderDoc(a) \o t : a \in RBAttributeTexts, t \in RBTails}
    \cup {<<>>, endXMLmarker \o <<10, 7>>, Txt(<<"x", "x">>) \o <<10>>}

-----------------------------------------------------------------------------
(* Packed beams: beams of bin values written with zero-run words *)

\* the longest synthetic beam
MaxBeamLen == 4

\* bin values: zero, values, the greatest value
BinValues == {0, 7, 4095}

SynthBeams == SeqsUpTo(BinValues, MaxBeamLen)

\* the end of the zero run of b that starts at i: the first position after
\* i that holds no zero
RunEnd(b, i) == LeastOr({j \in i..Len(b) : b[j] # 0}, Len(b) + 1)

\* the words of b from position i on: a zero run becomes one word with the
\* flag bit and its length (at most 4095 a word), any other value is its
\* own word
RECURSIVE PackFrom(_, _)
PackFrom(b, i) ==
    IF i > Len(b) THEN <<>>
    ELSE IF b[i] # 0 THEN <<b[i]>> \o PackFrom(b, i + 1)
    ELSE <<flag + Min(RunEnd(b, i) - i, data)>>
         \o PackFrom(b, i + Min(RunEnd(b, i) - i, data))

Pack(b) == PackFrom(b, 1)

PackedBeams == {Pack(b) : b \in SynthBeams}

-----------------------------------------------------------------------------
(* The state machine: one call of one entry point on one input *)

\* the DX files: a header text with its one or two terminators, the payload
\* still to come; a header text without one tag, and nothing after its
\* terminator; and header texts that end before any terminator
DXFileStarts ==
    {[bytes |-> DXHeaderText(by, "none") \o ETX, sealed |-> FALSE] : by \in DXDeclared}
    \cup {[bytes |-> DXHeaderText(by, "none") \o ETX \o ETX, sealed |-> FALSE] :
            by \in DXDeclared}
    \cup {[bytes |-> DXHeaderText(999, t) \o ETX, sealed |-> TRUE] : t \in DXTags}
    \cup {[bytes |-> Slice(DXHeaderText(999, "none"), 0, n), sealed |-> TRUE] :
            n \in {0, 2, 70}}

\* the RADOLAN files: header text, terminator, payload; and header texts
\* that end before the terminator
RadolanFiles ==
    {hd \o ETX \o RadolanPayload(hd) : hd \in RadolanHeaders}
    \cup {Slice(RadolanHeaderText(Txt(<<"R", "X">>), Txt(<<"1", "0", "0", "0", "0">>),
                                  Txt(<<"+", "0", "0">>),
                                  Txt(<<" ", " ", " ", "2", "x", " ", " ", " ", "2">>),
                                  "none"), 0, n) : n \in {0, 17}}

Start(f, bytes, isSealed, a, m, p) ==
    /\ fn = f /\ file = bytes /\ sealed = isSealed /\ arg = a /\ missing = m
    /\ pc = p /\ fpos = 0 /\ fstate = "none"
    /\ header = <<>> /\ atend = FALSE /\ mychar = <<>>
    /\ attrs = [none |-> TRUE] /\ raw = <<>> /\ idx = 0
    /\ beams = <<>> /\ elevs = <<>> /\ azims = <<>>
    /\ warned = FALSE /\ ret = [kind |-> "none"] /\ exc = "none"
    /\ turn = 0 /\ alone = [none |-> TRUE] /\ zero_index = "unset"

Init ==
    \/ \E f \in DXFileStarts : Start("readDX", f.bytes, f.sealed, <<>>, 0, "open")
    \/ \E f \in RadolanFiles, m \in Sentinels :
          Start("read_RADOLAN_composite", f, TRUE, <<>>, m, "open")
    \/ \E a \in RawInputs \cup PackedBeams : Start("unpackDX", <<>>, TRUE, a, 0, "call")
    \/ \E a \in DXHeaders : Start("parse_DX_header", <<>>, TRUE, a, 0, "call")
    \/ \E a \in RadolanHeaders :
          Start("parse_DWD_quant_composite_header", <<>>, TRUE, a, 0, "call")
    \/ \E t \in DomTrees, p \in DomPaths, f \in {"nodeList", "node", "hasNode"} :
          Start(f, <<>>, TRUE, [self |-> t, path |-> p], 0, "call")
    \/ \E t \in XTrees, k \in XKeys :
          Start("find_key", <<>>, TRUE, [key |-> k, dictionary |-> t], 0, "call")
    \/ \E d \in RBStrings, b \in RBBlobIds :
          Start("get_RB_blob_data", <<>>, TRUE, [datastring |-> d, blobid |-> b], 0, "call")
    \/ \E o \in SysByteOrders, d \in RBDepths :
          Start("get_RB_data_layout", <<>>, TRUE, [sysbyteorder |-> o, datadepth |-> d],
                0, "call")
    \/ \E o \in SysByteOrders, b \in RBBuffers, d \in RBDepths :
          Start("map_RB_data", <<>>, TRUE,
                [sysbyteorder |-> o, data |-> b, datadepth |-> d], 0, "call")
    \/ \E o \in SysByteOrders, s \in RBArrayStrings, b \in RBBlobDicts :
          Start("get_RB_blob_from_string", <<>>, TRUE,
                [sysbyteorder |-> o, datastring |-> s, blobdict |-> b], 0, "call")
    \/ \E f \in RBFiles, e \in BOOLEAN, g \in {"get_RB_file_as_string", "get_RB_header"} :
          Start(g, f, TRUE, [exists |-> e], 0, "open")

Next ==
    \/ OpenDX
    \/ ScanDX
    \/ ParseDX
    \/ PayloadDX
    \/ BeamDX
    \/ FinishDX
    \/ OpenRadolan
    \/ ScanRadolan
    \/ ParseRadolan
    \/ DecodeRadolan
    \/ CallUnpackDX
    \/ CallParseDX
    \/ CallParseRadolan
    \/ CallNodeList
    \/ CallNode
    \/ CallHasNode
    \/ CallFindKey
    \/ CallGetRBBlobData
    \/ CallGetRBDataLayout
    \/ CallMapRBData
    \/ CallGetRBBlobFromString
    \/ OpenRBFile
    \/ ReadRBFile
    \/ OpenRBHeader
    \/ ReadlineRBHeader
    \/ ParseRBHeader

Spec == Init /\ [][Next]_vars

-----------------------------------------------------------------------------
(* Two calls in one interpreter.  The code keeps nothing between calls: *)
(* every name the decoders assign is a local of the call, and the only  *)
(* `global` statement of the module is that of                           *)
(* read_gamic_scan_attributes.  A session is the call of turn 0 run     *)
(* alone, then the same call on the same input run again while other    *)
(* calls of the module are made in between its steps.                    *)

\* the values read_gamic_scan_attributes leaves in the globals
GlobalValues == {"PVOL", "RHI"}

\* the position a call of f starts at
EntryOf(f) ==
    IF f \in {"readDX", "read_RADOLAN_composite", "get_RB_file_as_string",
              "get_RB_header"}
    THEN "open" ELSE "call"

\* a call entered with the header text an earlier call left
EnterCall_StaleHeader ==
    /\ pc' = EntryOf(fn) /\ fpos' = 0 /\ fstate' = "none"
    /\ header' = header /\ atend' = FALSE /\ mychar' = <<>>
    /\ attrs' = [none |-> TRUE] /\ raw' = <<>> /\ idx' = 0
    /\ beams' = <<>> /\ elevs' = <<>> /\ azims' = <<>>
    /\ ret' = [kind |-> "none"] /\ exc' = "none"

\* the locals of a call as it is entered: none is bound yet, whatever an
\* earlier call left in its own
EnterCall ==
    /\ pc' = EntryOf(fn) /\ fpos' = 0 /\ fstate' = "none"
    /\ header' = <<>> /\ atend' = FALSE /\ mychar' = <<>>
    /\ attrs' = [none |-> TRUE] /\ raw' = <<>> /\ idx' = 0
    /\ beams' = <<>> /\ elevs' = <<>> /\ azims' = <<>>
    /\ ret' = [kind |-> "none"] /\ exc' = "none"

\* the calls made a second time are those on files with at most this many
\* words after the header
MaxSessionWords == 8

\* the call has ended; it is made again on the same file and arguments.
\* The warnings registry (warned) is the interpreter's and stays.
AgainCall ==
    /\ turn = 0 /\ pc = "done"
    /\ Len(file) - Len(header) <= 2 * MaxSessionWords
    /\ turn' = 1
    /\ alone' = [ret |-> ret, exc |-> exc]
    /\ EnterCall
    /\ UNCHANGED <<fn, file, sealed, arg, missing, warned, zero_index>>

\* between two steps of the second call another call of the module runs:
\* read_gamic_scan_attributes binds the globals for its scan type (a decode
\* call on another input has its own locals and its own file, and binds no
\* global)
OtherCall ==
    /\ turn = 1 /\ pc # "done"
    /\ \E v \in GlobalValues \ {zero_index} : zero_index' = v
    /\ UNCHANGED <<fn, file, sealed, arg, missing, pc, fpos, fstate, header, atend,
                   mychar, attrs, raw, idx, beams, elevs, azims, warned, ret, exc,
                   turn, alone>>

\* the decode calls: the DX and RADOLAN readers, and the Rainbow functions
\* that take the file's bytes
Decoders ==
    {"readDX", "read_RADOLAN_composite", "get_RB_file_as_string", "get_RB_header",
     "get_RB_blob_data", "get_RB_blob_from_string"}

InitSession == Init /\ fn \in Decoders

NextSession ==
    \/ OpenDX
    \/ ScanDX
    \/ ParseDX
    \/ PayloadDX
    \/ BeamDX
    \/ FinishDX
    \/ OpenRadolan
    \/ ScanRadolan
    \/ ParseRadolan
    \/ DecodeRadolan
    \/ CallGetRBBlobData
    \/ CallGetRBBlobFromString
    \/ OpenRBFile
    \/ ReadRBFile
    \/ OpenRBHeader
    \/ ReadlineRBHeader
    \/ ParseRBHeader
    \/ AgainCall
    \/ OtherCall

SpecSession == InitSession /\ [][NextSession]_vars

-----------------------------------------------------------------------------
(* The claims *)

\* the call has ended, by a return or by an exception
Done(f) == fn = f /\ pc = "done"

\* the expansion of a beam word by word: count-many zeros for a word with
\* the zero-count bit, the word itself otherwise
HasCountBit(w) == (w \div 4096) % 2 = 1
Width(w) == IF HasCountBit(w) THEN w % 4096 ELSE 1
NaiveCell(w) == IF HasCountBit(w) THEN 0 ELSE w
Before(ws, i) == Cardinality(UNION {{j} \X (1..Width(ws[j])) : j \in 1..(i - 1)})
Offsets(ws) == SubSeq([i \in 1..(Len(ws) + 1) |-> Before(ws, i)], 1, Len(ws) + 1)
WordAt(off, p) == CHOOSE i \in 1..(Len(off) - 1) : off[i] < p /\ p <= off[i + 1]
Expand(ws, off) ==
    SubSeq([p \in 1..off[Len(ws) + 1] |-> NaiveCell(ws[WordAt(off, p)])], 1, off[Len(ws) + 1])
NaiveExpand(ws) == Expand(ws, Offsets(ws))

\* C1: for every sequence of bin words, unpackDX returns the in-order
\* concatenation of (word & 4095) zeros for each word with the zero-count
\* bit and of the word itself for each other word.
C1_UnpackIsNaiveExpansion ==
    Done("unpackDX") => (exc = "none" /\ ret.kind = "beam" /\ ret.data = NaiveExpand(arg))

\* where unpackDX returns, the beam returned is the word-by-word expansion
UnpackReturnsNaiveExpansion ==
    (Done("unpackDX") /\ exc = "none") => ret.data = NaiveExpand(arg)

\* C2: readDX never raises because of the shape of the beams: once the
\* payload is read (the file is closed again), the call returns.
C2_IrregularPayloadNonFatal ==
    (Done("readDX") /\ fstate = "closed") => exc = "none"

\* the exact value of a record [num, den]: a <= b, a = n / d
AtMost(a, b) == a.den > 0 /\ b.den > 0 /\ a.num * b.den <= b.num * a.den
IsRatio(a, n, d) == a.num * d = n * a.den

\* the cells of the beams bs, as pairs of 1-based indices
Cells(bs) == {<<i, j>> : i \in 1..Len(bs), j \in 1..FullBeam} \cap
             UNION {{i} \X (1..Len(bs[i])) : i \in 1..Len(bs)}

\* C3: for every bin word w of every decoded beam, the value readDX returns
\* is (w & 4095) * 0.5 - 32.5, that is (5 * (w mod 4096) - 325) / 10,
\* whatever the other bits of w, and it is non-decreasing in w & 4095.
C3_DbzTransform ==
    (Done("readDX") /\ exc = "none") =>
        /\ Len(ret.data) = Len(beams)
        /\ \A i \in 1..Len(beams) : Len(ret.data[i]) = Len(beams[i])
        /\ \A c \in Cells(beams) :
              IsRatio(ret.data[c[1]][c[2]], 5 * (beams[c[1]][c[2]] % 4096) - 325, 10)
        /\ \A c \in Cells(beams), d \in Cells(beams) :
              (beams[c[1]][c[2]] % 4096 <= beams[d[1]][d[2]] % 4096)
                  => AtMost(ret.data[c[1]][c[2]], ret.data[d[1]][d[2]])

\* readDX has returned beams with a clutter-flagged bin of value 7, returned
\* as -29.0, beside the zeros of a run, returned as -32.5
C3_Witness ==
    /\ Done("readDX") /\ exc = "none"
    /\ \E c \in Cells(beams) :
          /\ beams[c[1]][c[2]] = 32768 + 7
          /\ ret.data[c[1]][c[2]] = [num |-> -58, den |-> 2]
    /\ \E c \in Cells(beams) :
          /\ beams[c[1]][c[2]] = 0
          /\ ret.data[c[1]][c[2]] = [num |-> -65, den |-> 2]

\* the 1-based indices of the payload words equal to 8192, the i-th of
\* them, and the index after the bins of the beam of the marker at m
Markers == {m \in 1..Len(raw) : raw[m] = 8192}
Marker(i) == CHOOSE m \in Markers : Cardinality({x \in Markers : x < m}) = i - 1
BinsEnd(m) ==
    IF \E x \in Markers : x > m
    THEN CHOOSE x \in Markers : x > m /\ \A y \in Markers : y > m => x <= y
    ELSE Len(raw) + 1
BinWords(m) == SubSeq(raw, m + 3, BinsEnd(m) - 1)

\* the returned beam out has the values (w & 4095) * 0.5 - 32.5 of the bins ws
IsBeamOf(out, ws) ==
    /\ Len(out) = Len(ws)
    /\ \A j \in 1..Len(ws) : IsRatio(out[j], (ws[j] % 4096) - 65, 2)

\* C4: readDX returns one beam per payload word equal to 8192; the i-th
\* beam has the azimuth and the elevation (word & 4095) / 10 of the two
\* words after the i-th marker and the bins decoded from the words after
\* these up to the next marker or the end, in payload order.
C4_BeamFraming ==
    (Done("readDX") /\ exc = "none") =>
        /\ Len(ret.data) = Cardinality(Markers)
        /\ Len(ret.attrs.azim) = Cardinality(Markers)
        /\ Len(ret.attrs.elev) = Cardinality(Markers)
        /\ \A i \in 1..Cardinality(Markers) :
              /\ IsRatio(ret.attrs.azim[i], raw[Marker(i) + 1] % 4096, 10)
              /\ IsRatio(ret.attrs.elev[i], raw[Marker(i) + 2] % 4096, 10)
              /\ IsBeamOf(ret.data[i], NaiveExpand(BinWords(Marker(i))))

\* readDX has returned two beams of different lengths whose azimuths
\* descend: 359.9 with a value and two zeros, then 129.1 with two zeros
C4_Witness ==
    /\ Done("readDX") /\ exc = "none"
    /\ Cardinality(Markers) = 2
    /\ ret.attrs.azim = <<[num |-> 3599, den |-> 10], [num |-> 1291, den |-> 10]>>
    /\ ret.attrs.elev = <<[num |-> 8, den |-> 10], [num |-> 9, den |-> 10]>>
    /\ Len(ret.data[1]) = 3 /\ Len(ret.data[2]) = 2
    /\ ret.data[1][1] = [num |-> 9 - 65, den |-> 2]

\* the header scan is at the end of a source without a terminator byte
TruncatedAtEnd ==
    /\ fn \in {"readDX", "read_RADOLAN_composite"} /\ pc = "scan"
    /\ sealed /\ fpos >= Len(file)
    /\ \A k \in 1..Len(file) : file[k] # 3

\* C5: when the source ends before a terminator byte has been read, the
\* header scan ends the call with a failure: the pass of the scan loop that
\* finds the source at its end does not go on scanning.
C5_TruncatedScanFails ==
    [][TruncatedAtEnd => (pc' = "done" /\ exc' # "none")]_vars

DXRequired ==
    {Txt(t) : t \in {<<"B", "Y">>, <<"V", "S">>, <<"C", "O">>, <<"C", "D">>,
                     <<"C", "S">>, <<"E", "P">>, <<"M", "S">>}}

RadolanRequired ==
    {Txt(t) : t \in {<<"S", "W">>, <<"P", "R">>, <<"I", "N", "T">>, <<"G", "P">>,
                     <<"M", "S">>}}

Lacks(hd, tags) == \E t \in tags : Find(hd, t) = -1

\* C6: parse_DX_header fails on a header text that lacks one of BY, VS, CO,
\* CD, CS, EP, MS, and parse_DWD_quant_composite_header fails on one that
\* lacks one of SW, PR, INT, GP, MS.
C6_MissingTagFails ==
    /\ (Done("parse_DX_header") /\ Lacks(arg, DXRequired)) => exc # "none"
    /\ (Done("parse_DWD_quant_composite_header") /\ Lacks(arg, RadolanRequired))
           => exc # "none"

\* read_RADOLAN_composite has ended on a file whose header text has its
\* terminator and all its tags
WellFormedRadolan ==
    /\ Done("read_RADOLAN_composite")
    /\ Len(file) > Len(header) /\ At(file, Len(header)) = 3
    /\ ~Lacks(header, RadolanRequired)
    /\ parse_DWD_quant_composite_header(header).exc = "none"

IsRX == Slice(header, 0, 2) = Txt(<<"R", "X">>)

\* the dimensions in the header text of the file, and its k-th payload
\* byte and 16-bit word, k from 0
GridRows == parse_DWD_quant_composite_header(header).val.nrow
GridCols == parse_DWD_quant_composite_header(header).val.ncol
GridExp == parse_DWD_quant_composite_header(header).val.precision.exp
PayloadByte(k) == At(file, Len(header) + 1 + k)
PayloadWord(k) == PayloadByte(2 * k) + 256 * PayloadByte(2 * k + 1)

\* C7: on product RX read_RADOLAN_composite returns the grid of the payload
\* bytes with each byte 250 replaced by the sentinel and every other byte
\* unchanged, and the clutter index set is the set of the flat positions of
\* the bytes 249.
C7_RXDecode ==
    (WellFormedRadolan /\ IsRX) =>
        /\ exc = "none" /\ ret.kind = "grid"
        /\ Len(ret.data) = GridRows
        /\ \A r \in 1..GridRows :
              /\ Len(ret.data[r]) = GridCols
              /\ \A c \in 1..GridCols :
                    ret.data[r][c] =
                        IF PayloadByte((r - 1) * GridCols + c - 1) = 250 THEN missing
                        ELSE PayloadByte((r - 1) * GridCols + c - 1)
        /\ ret.attrs.cluttermask =
               {k \in 0..(GridRows * GridCols - 1) : PayloadByte(k) = 249}

\* the cell x is exactly v * 10 ^ e
IsScaled(x, v, e) == IF e >= 0 THEN x = v * Pow10(e) ELSE x * Pow10(0 - e) = v

\* C8: on every other product, the cell of a 16-bit word with neither the
\* nodata bit nor the negative bit is exactly (word & 0x0FFF) * precision.
C8_Scaling16 ==
    (WellFormedRadolan /\ ~IsRX) =>
        /\ exc = "none" /\ ret.kind = "grid"
        /\ \A r \in 1..GridRows, c \in 1..GridCols :
              ((PayloadWord((r - 1) * GridCols + c - 1) \div 8192) % 4 = 0)
                  => IsScaled(ret.data[r][c],
                              PayloadWord((r - 1) * GridCols + c - 1) % 4096, GridExp)

\* C9: on a well-formed file read_RADOLAN_composite returns the grid and
\* the attributes, with a warning exactly when the radar id text[8:13] is
\* not "10000".
C9_RadarIdWarning ==
    WellFormedRadolan =>
        /\ exc = "none" /\ ret.kind = "grid"
        /\ warned <=> (Slice(header, 8, 13) # Txt(<<"1", "0", "0", "0", "0">>))

\* C10: the mapping parse_DWD_quant_composite_header returns has the
\* product type text[0:2] and the radar id text[8:13].
C10_HeaderFields ==
    (Done("parse_DWD_quant_composite_header") /\ exc = "none") =>
        /\ "producttype" \in DOMAIN ret.data
        /\ ret.data.producttype = Slice(arg, 0, 2)
        /\ "radarid" \in DOMAIN ret.data
        /\ ret.data.radarid = Slice(arg, 8, 13)

IsRD == Slice(header, 0, 2) = Txt(<<"R", "D">>)

\* the magnitude of the 16-bit word w with the sign the product gives it
SignedMagnitude(w) ==
    IF IsRD /\ (w \div 16384) % 2 = 1 THEN 0 - (w % 4096) ELSE w % 4096

\* C11: in the 16-bit path the cell of a word without the nodata bit is the
\* scaled magnitude word & 0x0FFF, negated exactly when the product is RD
\* and bit 15 (0x4000) of the word is set.
C11_RDSign ==
    (WellFormedRadolan /\ ~IsRX) =>
        /\ exc = "none" /\ ret.kind = "grid"
        /\ \A r \in 1..GridRows, c \in 1..GridCols :
              ((PayloadWord((r - 1) * GridCols + c - 1) \div 8192) % 2 = 0)
                  => IsScaled(ret.data[r][c],
                              SignedMagnitude(PayloadWord((r - 1) * GridCols + c - 1)),
                              GridExp)

\* the parts of a path segment name, name@attr or name@attr=value
SegRest(seg) == Slice(seg, Find(seg, <<64>>) + 1, Len(seg))
SegName(seg) == IF Find(seg, <<64>>) = -1 THEN seg ELSE Slice(seg, 0, Find(seg, <<64>>))
SegHasAttr(seg) == Find(seg, <<64>>) # -1
SegHasValue(seg) == SegHasAttr(seg) /\ Find(SegRest(seg), <<61>>) # -1
SegAttr(seg) ==
    IF SegHasValue(seg) THEN Slice(SegRest(seg), 0, Find(SegRest(seg), <<61>>))
    ELSE SegRest(seg)
SegValue(seg) == Slice(SegRest(seg), Find(SegRest(seg), <<61>>) + 1, Len(SegRest(seg)))

\* a segment with at most one "@" and at most one "=" after it
SegWellFormed(seg) ==
    SegHasAttr(seg) =>
        /\ Find(SegRest(seg), <<64>>) = -1
        /\ SegHasValue(seg) => Find(SegValue(seg), <<61>>) = -1

\* the node n satisfies the test of the segment
Satisfies(n, seg) ==
    SegHasAttr(seg) =>
        /\ SegAttr(seg) \in DOMAIN n.attrMap
        /\ SegHasValue(seg) => n.attrMap[SegAttr(seg)] = SegValue(seg)

\* the children of parent in the bucket of the segment that satisfy its
\* test, in file order
SegMatches(parent, seg) ==
    IF SegName(seg) \in DOMAIN parent.childMap
    THEN SelectSeq(parent.childMap[SegName(seg)], LAMBDA n : Satisfies(n, seg))
    ELSE <<>>

\* the nodes the segments k.. of segs denote below parent: all matches of
\* the last segment under the first match of each segment before it
RECURSIVE Resolve(_, _, _)
Resolve(parent, segs, k) ==
    IF k = Len(segs) THEN SegMatches(parent, segs[k])
    ELSE IF SegMatches(parent, segs[k]) = <<>> THEN <<>>
    ELSE Resolve(SegMatches(parent, segs[k])[1], segs, k + 1)

PathWellFormed(path) == \A i \in 1..Len(Split(path, 47)) : SegWellFormed(Split(path, 47)[i])

Resolved(self, path) == Resolve(self, Split(path, 47), 1)

\* C12: nodeList resolves every segment but the last to the first node of
\* the named bucket that satisfies the segment's test and returns all nodes
\* of the last segment's bucket, under that parent, that satisfy its test,
\* in file order; the list is empty when a segment has no match.
C12_NodeListFirstThenAll ==
    (Done("nodeList") /\ PathWellFormed(arg.path)) =>
        /\ exc = "none"
        /\ ret.data = Resolved(arg.self, arg.path)

\* nodeList has returned the two b with y="1" of the second a: the first a
\* has no x, and the third a, which has x, was not searched
C12_Witness ==
    /\ Done("nodeList") /\ exc = "none"
    /\ arg.path = Txt(<<"a", "@", "x", "/", "b", "@", "y", "=", "1">>)
    /\ Len(ret.data) = 2
    /\ ret.data[1].id = 22 /\ ret.data[2].id = 24

\* C13: hasNode(path) is True exactly when a node matches the path, that
\* is when nodeList(path) is not empty.
C13_HasNodeIffExists ==
    (Done("hasNode") /\ PathWellFormed(arg.path)) =>
        /\ exc = "none"
        /\ ret.data = (Resolved(arg.self, arg.path) # <<>>)

\* the dicts of a nested value, at any depth and in any container
RECURSIVE DictsOf(_)
DictsOf(x) ==
    IF x.type = "dict" THEN {x} \cup UNION {DictsOf(x.items[i].v) : i \in 1..Len(x.items)}
    ELSE IF x.type = "list" THEN UNION {DictsOf(x.elems[i]) : i \in 1..Len(x.elems)}
    ELSE {}

Carries(d, key) == \E i \in 1..Len(d.items) : d.items[i].k = key

\* C14: find_key returns every dict of the tree that has the key exactly
\* once and no other dict, whatever the depth and the containers, and does
\* not fail.
C14_FindKeyFindsAll ==
    Done("find_key") =>
        /\ exc = "none"
        /\ {ret.data[i].id : i \in 1..Len(ret.data)}
               = {d.id : d \in {x \in DictsOf(arg.dictionary) : Carries(x, arg.key)}}
        /\ \A i \in 1..Len(ret.data), j \in 1..Len(ret.data) :
              ret.data[i].id = ret.data[j].id => i = j

\* where find_key returns, it has found every dict with the key exactly once
FindKeyReturnsAll ==
    (Done("find_key") /\ exc = "none") =>
        /\ {ret.data[i].id : i \in 1..Len(ret.data)}
               = {d.id : d \in {x \in DictsOf(arg.dictionary) : Carries(x, arg.key)}}
        /\ \A i \in 1..Len(ret.data), j \in 1..Len(ret.data) :
              ret.data[i].id = ret.data[j].id => i = j

-----------------------------------------------------------------------------
(* get_RB_blob_data: the opening tag as the claims read it *)

\* the text that opens the tag of the requested id, closing quote included
WantedOpen ==
    Txt(<<"<", "B", "L", "O", "B", " ", "b", "l", "o", "b", "i", "d", "=", "\"">>)
    \o DecimalOf(arg.blobid) \o <<34>>

\* the 0-based positions of the buffer at which such a tag opens
TagStarts ==
    {i \in 0..(Len(arg.datastring) - 1) :
        At(arg.datastring, i) = 60
        /\ Slice(arg.datastring, i, i + Len(WantedOpen)) = WantedOpen}

FirstTag == LeastOr(TagStarts, -1)

\* the index g of the '>' that closes the first such tag
TagClose ==
    LeastOr({j \in FirstTag..(Len(arg.datastring) - 1) : At(arg.datastring, j) = 62}, -1)

TagText == Slice(arg.datastring, FirstTag, TagClose + 1)

\* where the value of the attribute `name` starts in the tag, -1 if the tag
\* has no such attribute
ValueStart(name) ==
    IF Find(TagText, <<32>> \o name \o <<61, 34>>) = -1 THEN -1
    ELSE Find(TagText, <<32>> \o name \o <<61, 34>>) + Len(name) + 3

ValueOf(name) ==
    Slice(TagText, ValueStart(name), FindFrom(TagText, <<34>>, ValueStart(name)))

SizeName == Txt(<<"s", "i", "z", "e">>)

CompressionName == Txt(<<"c", "o", "m", "p", "r", "e", "s", "s", "i", "o", "n">>)

\* the buffer has a complete opening tag of the requested id that declares a
\* size M and a compression
TagDeclares ==
    /\ fn = "get_RB_blob_data"
    /\ FirstTag # -1 /\ TagClose # -1
    /\ ValueStart(SizeName) # -1 /\ ValueStart(CompressionName) # -1
    /\ AllDigits(ValueOf(SizeName))

DeclaredSize == DigitsValue(ValueOf(SizeName))

DeclaredCompression == ValueOf(CompressionName)

\* the bytes the buffer holds of raw[g+2 .. g+2+M-1]
Held == Slice(arg.datastring, TagClose + 2, TagClose + 2 + DeclaredSize)

\* C15: for a tag that declares size M and a compression other than "qt",
\* get_RB_blob_data returns exactly the M bytes raw[g+2 .. g+2+M-1], and a
\* buffer that holds fewer than M bytes after the tag is a failure, never a
\* shorter payload.
C15_ExactlyDeclaredBytes ==
    (Done("get_RB_blob_data") /\ TagDeclares /\ DeclaredCompression # Qt)
    => IF Len(arg.datastring) >= TagClose + 2 + DeclaredSize
       THEN exc = "none" /\ ret.data = Held /\ Len(ret.data) = DeclaredSize
       ELSE exc # "none"

\* What the code does for such a tag: it returns the bytes the buffer holds
\* of the declared range, which are the M declared bytes when the buffer
\* holds them all.
BlobReturnsHeldBytes ==
    (Done("get_RB_blob_data") /\ TagDeclares /\ DeclaredCompression # Qt)
    => exc = "none" /\ ret.data = Held

\* C16: get_RB_blob_data(raw, N) fails with EOFError if and only if raw has
\* no opening tag <BLOB blobid="N"; otherwise the tag it reads is the first
\* such tag, never one whose id only starts with N.
C16_LookupById ==
    Done("get_RB_blob_data")
    => /\ (exc = "EOFError") <=> (TagStarts = {})
       /\ (TagDeclares /\ DeclaredCompression # Qt) => (exc = "none" /\ ret.data = Held)

\* N = 1 was requested from a buffer whose first BLOB has the id 10 and whose
\* second BLOB has the id 1: the payload of the second was returned
C16_Witness ==
    /\ Done("get_RB_blob_data") /\ arg.blobid = 1
    /\ Find(arg.datastring, RBTag(10, DecimalOf(1), None4, "full")) # -1
    /\ Find(arg.datastring, RBTag(10, DecimalOf(1), None4, "full")) < FirstTag
    /\ exc = "none" /\ ret.data = <<8, 9>>

\* C17: with compression "qt" the result is inflate(payload[4:]), so that a
\* payload of any four bytes followed by deflate(D) yields D; with any other
\* compression the payload is returned unchanged.
C17_QtInflates ==
    (Done("get_RB_blob_data") /\ TagDeclares)
    => IF DeclaredCompression = Qt
       THEN /\ \A d \in RBDatas :
                 Slice(Held, 4, Len(Held)) = Deflate(d) => (exc = "none" /\ ret.data = d)
            /\ exc = "none" =>
                 Slice(Held, 4, 4 + Len(Deflate(ret.data))) = Deflate(ret.data)
       ELSE exc = "none" /\ ret.data = Held

\* a "qt" payload of four bytes and deflate(<<1, 2, 3>>) was inflated
C17_Witness ==
    /\ Done("get_RB_blob_data") /\ TagDeclares /\ DeclaredCompression = Qt
    /\ Slice(Held, 4, Len(Held)) = Deflate(<<1, 2, 3>>)
    /\ exc = "none" /\ ret.data = <<1, 2, 3>>

-----------------------------------------------------------------------------
(* get_RB_data_layout, map_RB_data, get_RB_blob_from_string *)

\* the element width of the value returned by get_RB_data_layout or by
\* map_RB_data
ReturnedWidth ==
    IF fn = "get_RB_data_layout" THEN ret.data.datawidth ELSE ret.data.dtype.width

\* C18: get_RB_data_layout / map_RB_data succeed with width 1, 2, 4 for
\* depth 8, 16, 32 and fail with ValueError for every other integer depth.
C18_DepthValidation ==
    (Done("get_RB_data_layout") \/ Done("map_RB_data"))
    => IF arg.datadepth \in {8, 16, 32}
       THEN exc = "none" /\ ReturnedWidth * 8 = arg.datadepth
       ELSE exc = "ValueError"

\* What the code does: a depth is accepted exactly when its floor division
\* by 8 is 1, 2 or 4, that is for 8..23 and 32..39.
DepthAcceptedByQuotient ==
    (Done("get_RB_data_layout") \/ Done("map_RB_data"))
    => IF (arg.datadepth >= 8 /\ arg.datadepth <= 23)
          \/ (arg.datadepth >= 32 /\ arg.datadepth <= 39)
       THEN exc = "none" /\ ReturnedWidth = arg.datadepth \div 8
       ELSE exc = "ValueError"

\* the value of the bytes b (1, 2 or 4 of them), first byte most significant
ValueBig(b) ==
    CASE Len(b) = 1 -> b[1]
      [] Len(b) = 2 -> b[1] * 256 + b[2]
      [] Len(b) = 4 -> b[1] * 16777216 + b[2] * 65536 + b[3] * 256 + b[4]

\* the value of the bytes b, first byte least significant
ValueLittle(b) ==
    CASE Len(b) = 1 -> b[1]
      [] Len(b) = 2 -> b[2] * 256 + b[1]
      [] Len(b) = 4 -> b[4] * 16777216 + b[3] * 65536 + b[2] * 256 + b[1]

\* the value of element i (from 0) of width w of the buffer, in the byte
\* order that is not the host's
OppositeValue(buf, i, w) ==
    IF arg.sysbyteorder = "little" THEN ValueBig(SubSeq(buf, i * w + 1, (i + 1) * w))
    ELSE ValueLittle(SubSeq(buf, i * w + 1, (i + 1) * w))

\* the two bytes of a 16-bit value in the byte order that is not the host's
OppositeBytes16(v) ==
    IF arg.sysbyteorder = "little" THEN <<v \div 256, v % 256>>
    ELSE <<v % 256, v \div 256>>

\* scenario C: the descriptor of blob 1 has depth 16, bins 4 and rays 2, and
\* the uncompressed payload of blob 1 is the eight values of RBValues16
ScenarioC ==
    /\ fn = "get_RB_blob_from_string"
    /\ arg.blobdict = BlobDict(<<49>>, <<49, 54>>, <<52>>, <<50>>)
    /\ arg.datastring =
         RBProlog \o RBBlob(1, <<49, 54>>, None4,
             OppositeBytes16(RBValues16[1]) \o OppositeBytes16(RBValues16[2])
             \o OppositeBytes16(RBValues16[3]) \o OppositeBytes16(RBValues16[4])
             \o OppositeBytes16(RBValues16[5]) \o OppositeBytes16(RBValues16[6])
             \o OppositeBytes16(RBValues16[7]) \o OppositeBytes16(RBValues16[8]))

\* element (r, c) of a two-dimensional array
ElementRC(a, r, c) == a.values[r * a.shape[2] + c + 1]

\* C19: map_RB_data reads the buffer as consecutive unsigned elements of the
\* declared width in the byte order opposite to the host's; in scenario C the
\* result has shape (2, 4) and element (r, c) is input value number r*4+c.
C19_OppositeByteOrder ==
    /\ (Done("map_RB_data") /\ exc = "none")
       => /\ Len(ret.data.values) = Len(arg.data) \div ReturnedWidth
          /\ ret.data.shape = <<Len(arg.data) \div ReturnedWidth>>
          /\ \A i \in 0..(Len(ret.data.values) - 1) :
                ret.data.values[i + 1] = OppositeValue(arg.data, i, ReturnedWidth)
    /\ (Done("get_RB_blob_from_string") /\ ScenarioC)
       => /\ exc = "none"
          /\ ret.data.shape = <<2, 4>>
          /\ \A r \in 0..1, c \in 0..3 :
                ElementRC(ret.data, r, c) = RBValues16[r * 4 + c + 1]

\* scenario C was decoded on a little-endian host: 258 came from the bytes
\* 1, 2 and is element (0, 0), 32639 is element (1, 3)
C19_Witness ==
    /\ Done("get_RB_blob_from_string") /\ ScenarioC /\ arg.sysbyteorder = "little"
    /\ exc = "none" /\ ret.data.shape = <<2, 4>>
    /\ ElementRC(ret.data, 0, 0) = 258 /\ ElementRC(ret.data, 1, 3) = 32639

-----------------------------------------------------------------------------
(* The file a call opened *)

\* the entry points that open a file
Openers == {"readDX", "read_RADOLAN_composite", "get_RB_header", "get_RB_file_as_string"}

\* the call has ended and had opened its file
ExitedAfterOpen == pc = "done" /\ fn \in Openers /\ fstate # "none"

\* C20: every decode call that opens a file has closed it when the call
\* exits, on every exit path: return, header-parse failure, truncated or
\* malformed payload.
C20_FileClosedAtExit == ExitedAfterOpen => fstate = "closed"

\* What the code does: the two Rainbow readers close the file before they
\* parse, so their file is closed on every exit.
RainbowFileClosedAtExit ==
    (ExitedAfterOpen /\ fn \in {"get_RB_header", "get_RB_file_as_string"})
    => fstate = "closed"

\* No call ends in a step that the model leaves open: a Huffman-coded
\* deflate block or an XML root with content.
NothingUnmodelled == exc \notin {"huffman", "content"}

-----------------------------------------------------------------------------
(* unpackDX on packed beams *)

\* C21: for every beam of bin values in 0..4095, packing it into run and
\* value words and applying unpackDX returns exactly the beam.
C21_ZeroRunRoundTrip ==
    Done("unpackDX")
    => \A b \in SynthBeams : arg = Pack(b) => (exc = "none" /\ ret.data = b)

\* What the code does: the round trip holds for every beam that has a zero
\* (its packing has a flagged word), and a beam without a zero, which is
\* shorter than 128 values here, fails.
RoundTripWithZero ==
    Done("unpackDX")
    => \A b \in SynthBeams :
          arg = Pack(b)
          => IF \E k \in 1..Len(b) : b[k] = 0
             THEN exc = "none" /\ ret.data = b
             ELSE exc = "AssertionError"

\* the outcome of the second call is that of the first.  On a ragged list
\* of beams the value of 'clutter' depends on the numpy release, which is
\* the same for both calls of an interpreter but is not part of the state:
\* there the decoded values are compared.
SameOutcome ==
    /\ exc = alone.exc
    /\ \/ ret = alone.ret
       \/ /\ ret.kind = "ragged" /\ alone.ret.kind = "ragged"
          /\ ret.data = alone.ret.data

GlobalsUntouched == [][OtherCall \/ zero_index' = zero_index]_vars

-----------------------------------------------------------------------------
(* The header scan of readDX *)

\* the index of the first 0x03 of the file, its length if there is none
FirstTerminator == LeastOr({i \in 0..(Len(file) - 1) : At(file, i) = 3}, Len(file))

\* the index of the first byte after the run of 0x03 that starts there
AfterTerminators ==
    LeastOr({i \in FirstTerminator..(Len(file) - 1) : At(file, i) # 3}, Len(file))

\* the header loop of readDX has ended
ScanEnded == fn = "readDX" /\ pc \notin {"open", "scan"}

\* the scan has ended and nothing was read since
ScanJustEnded == fn = "readDX" /\ pc \in {"parse", "payload"}

\* the last byte read is the first one after the terminators, if the file
\* has one
ReadsOnePast == ScanJustEnded => fpos = Min(AfterTerminators + 1, Len(file))

\* C23: the scan of readDX stops at the first byte after the run of 0x03
\* bytes and reads none beyond it; the header text is the bytes before the
\* first 0x03 and holds no terminator; the payload offset f.seek is given,
\* len(header), is the index of the first byte after the run.
C23_HeaderScan ==
    /\ ReadsOnePast
    /\ ScanEnded =>
          /\ header = Slice(file, 0, FirstTerminator)
          /\ \A k \in 1..Len(header) : header[k] # 3
          /\ Len(header) = AfterTerminators

\* C23 as the code has it: the scan stops at the first byte after the run
\* of 0x03 bytes and reads none beyond it; the header text is every byte
\* before that byte, the terminators of the run included, so that its
\* length is the index of the first byte after the run, the payload offset.
C23_HeaderScanWithTerminators ==
    /\ ReadsOnePast
    /\ ScanEnded =>
          /\ header = Slice(file, 0, AfterTerminators)
          /\ \A k \in 1..FirstTerminator : header[k] # 3
          /\ \A k \in (FirstTerminator + 1)..Len(header) : header[k] = 3
          /\ Len(header) = AfterTerminators

\* the scan of a file with two terminators has just ended on the payload's
\* first byte
C23_Witness ==
    /\ fn = "readDX" /\ pc = "parse"
    /\ AfterTerminators = FirstTerminator + 2
    /\ fpos = AfterTerminators + 1
    /\ mychar # ETX /\ mychar # <<>>

-----------------------------------------------------------------------------
(* The payload length of readDX *)

\* readDX has read its payload and made words of it
PayloadRead == fn = "readDX" /\ fstate = "closed"

\* header.bytes minus the header length
Declared == attrs.bytes - Len(header)

\* the payload bytes the file holds
Available == Len(file) - Len(header)

\* the bytes f.read(n) returns of them
ReadOf(n) == IF n < 0 THEN Available ELSE Min(n, Available)

\* the bytes the call has read after the header
BytesRead == fpos - Len(header)

\* C24: the number of payload bytes readDX reads is header.bytes minus the
\* header length, less one exactly when that difference is odd and the
\* header length is even; with an odd difference and an odd header length
\* the last byte is not dropped.
C24_PayloadLength ==
    PayloadRead =>
        BytesRead = ReadOf(IF Declared % 2 # 0 /\ Len(header) % 2 = 0
                           THEN Declared - 1 ELSE Declared)

\* What the code does: it reads one byte less whenever the difference is
\* odd, whatever the header length.
PayloadLengthDropsEveryOdd ==
    PayloadRead => BytesRead = ReadOf(IF Declared % 2 # 0 THEN Declared - 1 ELSE Declared)

\* a payload was read after an odd header with an odd difference, the file
\* holding the byte that was dropped
OddHeaderOddDifference ==
    /\ PayloadRead /\ Len(header) % 2 = 1 /\ Declared % 2 = 1
    /\ Available >= Declared /\ BytesRead = Declared - 1

-----------------------------------------------------------------------------
(* The clutter mask of readDX *)

\* the clutter flag of the bin a word makes: a word with the zero-count
\* bit makes zeros, which carry no flag
HasClutterBit(w) == (w \div 32768) % 2 = 1
ClutterCell(w) == ~HasCountBit(w) /\ HasClutterBit(w)
ClutterExpand(ws, off) ==
    SubSeq([p \in 1..off[Len(ws) + 1] |-> ClutterCell(ws[WordAt(off, p)])],
           1, off[Len(ws) + 1])
NaiveClutter(ws) == ClutterExpand(ws, Offsets(ws))

\* the 'clutter' attribute is an array of the shape of the data whose
\* entries are the clutter bits of the words that made the bins
ClutterIsMaskOfWords ==
    /\ ~ret.attrs.clutter.scalar
    /\ Len(ret.attrs.clutter.mask) = Len(ret.data)
    /\ \A i \in 1..Len(ret.data) :
          /\ Len(ret.attrs.clutter.mask[i]) = Len(ret.data[i])
          /\ ret.attrs.clutter.mask[i] = NaiveClutter(BinWords(Marker(i)))

\* C25: the 'clutter' attribute readDX returns has the shape of the data;
\* its entry for a bin is true exactly when the payload word that made the
\* bin has bit 2^15 set, a word without the zero-count bit keeping that bit
\* through unpackDX, and every bin of a zero run has clutter false.
C25_ClutterMask == (Done("readDX") /\ exc = "none") => ClutterIsMaskOfWords

\* What the code does: where the beams have one length, 'clutter' is that
\* mask.
ClutterMaskOfEqualBeams ==
    (Done("readDX") /\ exc = "none" /\ ret.kind = "rect") => ClutterIsMaskOfWords

\* readDX returned beams of one length with a flagged bin beside the zeros
\* of a run, and the mask tells them apart
EqualBeamsMasked ==
    /\ Done("readDX") /\ exc = "none" /\ ret.kind = "rect"
    /\ \E i \in 1..Len(ret.data) :
          /\ \E j \in 1..Len(ret.data[i]) : ret.attrs.clutter.mask[i][j]
          /\ \E j \in 1..Len(ret.data[i]) :
                beams[i][j] = 0 /\ ~ret.attrs.clutter.mask[i][j]

\* readDX returned beams of different lengths and the scalar True for
\* 'clutter'
RaggedClutterScalar ==
    /\ Done("readDX") /\ exc = "none" /\ ret.kind = "ragged"
    /\ ret.attrs.clutter.scalar

-----------------------------------------------------------------------------
(* The nodata cells of read_RADOLAN_composite *)

\* the nodata bit (8192) and the negative bit (16384) of a 16-bit word
HasNodataBit(w) == (w \div 8192) % 2 = 1
HasNegativeBit(w) == (w \div 16384) % 2 = 1

\* the value of the word w before scaling: its low 12 bits, negated on
\* product RD when the negative bit is set
SignedValue(w) == IF IsRD /\ HasNegativeBit(w) THEN 0 - (w % 4096) ELSE w % 4096

\* the cell of the k-th payload word in the grid returned
CellOfWord(k) == ret.data[(k \div GridCols) + 1][(k % GridCols) + 1]

\* C26: in the 16-bit path the sentinel is written after the sign and the
\* precision: every cell whose word has the nodata bit is exactly the
\* sentinel, whatever the precision, the product and the other bits, and a
\* cell whose word has not is its scaled value, not the sentinel's.
C26_NodataLast ==
    (WellFormedRadolan /\ ~IsRX) =>
        /\ exc = "none" /\ ret.kind = "grid"
        /\ \A k \in 0..(GridRows * GridCols - 1) :
              IF HasNodataBit(PayloadWord(k))
              THEN CellOfWord(k) = missing
              ELSE IsScaled(CellOfWord(k), SignedValue(PayloadWord(k)), GridExp)

\* a 16-bit file with a nodata word has been read to its end
NodataWordRead ==
    /\ WellFormedRadolan /\ ~IsRX
    /\ \E k \in 0..(GridRows * GridCols - 1) : HasNodataBit(PayloadWord(k))

\* What the code does: every call on such a file ends with KeyError
NodataNeverWritten == NodataWordRead => exc = "KeyError"

-----------------------------------------------------------------------------
(* The shape of a Rainbow blob *)

Rays == Txt(<<"r", "a", "y", "s">>)

\* the descriptor of the call declares the attribute, and the integer it
\* declares
Declares(attr) == AttrKey(attr) \in DOMAIN arg.blobdict
DeclaredInt(attr) == ParseInt(arg.blobdict[AttrKey(attr)]).val

\* the flat array of the blob's elements: what map_RB_data makes of the
\* bytes of the blob, for the id and the depth given
ElementsOf(blob, depth) ==
    IF blob.exc # "none" THEN [exc |-> blob.exc, val |-> NoneValue]
    ELSE map_RB_data(arg.sysbyteorder, blob.val, depth.val)
ElementsFor(blobid, depth) ==
    IF blobid.exc # "none" \/ depth.exc # "none"
    THEN [exc |-> "KeyError", val |-> NoneValue]
    ELSE ElementsOf(get_RB_blob_data(arg.datastring, blobid.val), depth)
FlatArray ==
    ElementsFor(get_RB_data_attribute(arg.blobdict, Txt(<<"b", "l", "o", "b", "i", "d">>)),
                get_RB_data_attribute(arg.blobdict, Txt(<<"d", "e", "p", "t", "h">>)))

\* get_RB_blob_from_string has ended on a blob whose elements it decoded
ElementsDecoded == Done("get_RB_blob_from_string") /\ FlatArray.exc = "none"

\* the call returned the elements with the shape given
ReturnedAs(shape) ==
    /\ exc = "none"
    /\ ret.data.values = FlatArray.val.values
    /\ ret.data.shape = shape

BlobReshaped ==
    /\ ElementsDecoded /\ Declares(Bins) /\ Declares(Rays)
    /\ exc = "none" /\ ret.data.shape = <<2, 4>>
BlobFlat ==
    /\ ElementsDecoded /\ ~Declares(Bins) /\ Declares(Rays)
    /\ exc = "none" /\ ret.data.shape = <<8>>

====
